---- MODULE Spec2Model ----
(***************************************************************************)
(* Remote account cloner worker of the ephemeral validator                 *)
(* (magicblock-account-cloner/src/remote_account_cloner_worker.rs).        *)
(*                                                                         *)
(* The worker owns two maps, clone_listeners and last_clone_output, and a  *)
(* request channel.  Callers register a one-shot sink per key and push the *)
(* key; the request loop takes the queued keys in batches and runs         *)
(* process_clone_request for each of them as cooperatively scheduled       *)
(* tasks.  A task is cut into steps at its suspension points (the fetcher  *)
(* calls and the retry sleep) and at the places where it reads state that  *)
(* other threads own (the update notifier's slots, the listener map).      *)
(*                                                                         *)
(* Slots are scaled to 0..U64_MAX: only their order is used by the code.   *)
(* Optional values (Option<T>) are sets with at most one element; the      *)
(* two HashMaps are functions whose DOMAIN is the set of keys present.     *)
(***************************************************************************)
EXTENDS Naturals, Sequences, FiniteSets, TLC

(* ------------------------------ bounds -------------------------------- *)

\* Highest slot the chain reaches in the model.
MaxSlot == 2

\* Most keys queued in the request channel when a sender without a sink adds
\* one.
MaxQueued == 1

\* ------------------------------ constants ------------------------------

\* u64::MAX on the scaled slot axis: strictly above every chain slot.
U64_MAX == MaxSlot + 2

fetch_retries == 5

RecvLimit == 100

Keys == {"K1", "K2"}

Clients == {"c1", "c2"}

ChainSlots == 1 .. MaxSlot

\* The slots of a chain that runs one slot longer.
LaterSlots == 1 .. MaxSlot + 1

\* Owners that the code tells apart.
SYSTEM == "system_program"

LoaderUpgradeable == "bpf_loader_upgradeable"

LoaderLegacy == "bpf_loader"

LoaderDeprecated == "bpf_loader_deprecated"

DefaultPubkey == "default"

ValidatorId == "validator"

\* ------------------------------ Option / map helpers -------------------

None == {}

Some(v) == {v}

IsSome(o) == o # {}

Unwrap(o) == CHOOSE v \in o : TRUE

UnwrapOr(o, d) == IF o = {} THEN d ELSE Unwrap(o)

Get(m, k) == IF k \in DOMAIN m THEN {m[k]} ELSE {}

Put(m, k, v) == [y \in DOMAIN m \cup {k} |-> IF y = k THEN v ELSE m[y]]

Remove(m, k) == [y \in DOMAIN m \ {k} |-> m[y]]

Take(s, n) == SubSeq(s, 1, IF Len(s) < n THEN Len(s) ELSE n)

Drop(s, n) == SubSeq(s, (IF Len(s) < n THEN Len(s) ELSE n) + 1, Len(s))

\* ------------------------------ data model -----------------------------

FeePayer(lamports, owner) ==
    [kind |-> "FeePayer", lamports |-> lamports, owner |-> owner]

Undelegated(executable, owner) ==
    [kind |-> "Undelegated", executable |-> executable, owner |-> owner]

DelegationRecord(authority, owner, delegation_slot) ==
    [authority |-> authority, owner |-> owner, delegation_slot |-> delegation_slot]

Delegated(record) ==
    [kind |-> "Delegated", delegation_record |-> record]

Snapshot(pubkey, at_slot, chain_state) ==
    [pubkey |-> pubkey, at_slot |-> at_slot, chain_state |-> chain_state]

Cloned(snapshot, signature) ==
    [tag |-> "Cloned", account_chain_snapshot |-> snapshot, signature |-> signature]

Unclonable(pubkey, reason, at_slot) ==
    [tag |-> "Unclonable", pubkey |-> pubkey, reason |-> reason, at_slot |-> at_slot]

Ok(v) == [ok |-> TRUE, val |-> v]

Err(e) == [ok |-> FALSE, err |-> e]

Running == [stage |-> "Running"]

Hydrating(validator_identity, account_owner) ==
    [stage |-> "Hydrating", validator_identity |-> validator_identity,
     account_owner |-> account_owner]

Permissions(feepayer, undelegated, delegated, program, refresh) ==
    [allow_cloning_feepayer_accounts |-> feepayer,
     allow_cloning_undelegated_accounts |-> undelegated,
     allow_cloning_delegated_accounts |-> delegated,
     allow_cloning_program_accounts |-> program,
     allow_cloning_refresh |-> refresh]

\* ------------------------------ state ----------------------------------

VARIABLES
    cfg,                     \* the worker's immutable fields (set by new)
    world,                   \* what surrounds the worker in this run (fixed)
    clone_listeners,         \* HashMap<Pubkey, Vec<sink>>
    last_clone_output,       \* HashMap<Pubkey, AccountClonerOutput>
    channel,                 \* clone_request_sender -> clone_request_receiver
    loop,                    \* position of start_clone_request_processing
    tasks,                   \* the futures of the batch in flight (join_all)
    cancelled,               \* the cancellation token
    client,                  \* the callers: position, requested key, sink
    last_known_update_slot,  \* AccountUpdates: last update slot per key
    first_subscribed_slot,   \* AccountUpdates: first subscribed slot per key
    monitored,               \* AccountUpdates: keys under monitoring
    bank                     \* InternalAccountProvider: keys held locally

vars == <<cfg, world, clone_listeners, last_clone_output, channel, loop, tasks,
          cancelled, client, last_known_update_slot, first_subscribed_slot,
          monitored, bank>>

envVars == <<last_known_update_slot, first_subscribed_slot, monitored, bank>>

\* ------------------------------ configurations -------------------------

Config(permissions, allowed_program_ids, blacklisted_accounts, payer_init_lamports) ==
    [permissions |-> permissions,
     allowed_program_ids |-> allowed_program_ids,
     blacklisted_accounts |-> blacklisted_accounts,
     payer_init_lamports |-> payer_init_lamports,
     validator_identity |-> ValidatorId]

ChainLamports == 50

InitLamports == 1000000

FeePayerState == FeePayer(ChainLamports, SYSTEM)

DataState == Undelegated(FALSE, "owner_program")

ProgramState(loader) == Undelegated(TRUE, loader)

DelegatedState(d) == Delegated(DelegationRecord("other_validator", "owner_program", d))

\* What surrounds the worker in one run: the states the chain holds for the
\* keys callers ask for, the callers that issue requests, the collaborators
\* that may fail, and whether the owner of the token ever cancels it.
World(states, requested, callers, faults, cancellable) ==
    [chain |-> [k \in requested |-> states], callers |-> callers,
     faults |-> faults, cancellable |-> cancellable,
     hydrates |-> FALSE, accounts |-> <<>>, foreign_updates |-> FALSE,
     slots |-> ChainSlots]

\* The world of a chain that runs one slot longer.
LongChain(w) == [w EXCEPT !.slots = LaterSlots]

\* The world of a worker whose update notifier also reports the slots of keys
\* the worker did not ask it to monitor.
ForeignUpdates(w) == [w EXCEPT !.foreign_updates = TRUE]

\* An account of the local bank as get_all_accounts returns it.
LocalAccount(lamports, owner, executable) ==
    [lamports |-> lamports, owner |-> owner, executable |-> executable]

\* u64::MAX / 2, on the scale of the lamports of the model.
U64_MAX_HALF == 2000000

PlainAccount == LocalAccount(ChainLamports, "owner_program", FALSE)

EdgeAccount == LocalAccount(U64_MAX_HALF, SYSTEM, FALSE)

RichAccount == LocalAccount(U64_MAX_HALF + 1, SYSTEM, FALSE)

ProgramDataAccount == LocalAccount(ChainLamports, LoaderUpgradeable, FALSE)

\* The world of a validator that hydrates before it serves requests, with the
\* accounts its bank holds at start.
HydratingWorld(w, accounts) == [w EXCEPT !.hydrates = TRUE, !.accounts = accounts]

\* A scenario: the worker's configuration, its surroundings and the keys the
\* local bank holds at start.
Scenario(c, w, local) == [cfg |-> c, world |-> w, local |-> local]

AllAllowed == Permissions(TRUE, TRUE, TRUE, TRUE, TRUE)

AllFaults == {"AccountUpdatesError", "AccountFetcherError", "AccountDumperError"}

ScenarioDelegated ==
    Scenario(Config(AllAllowed, None, {}, Some(InitLamports)),
             World({FeePayerState, DelegatedState(1), DelegatedState(2)},
                   {"K1"}, {"c1", "c2"}, {"AccountDumperError"}, FALSE),
             {})

ScenarioNoFeePayer ==
    Scenario(Config(Permissions(FALSE, TRUE, TRUE, TRUE, TRUE), None, {}, None),
             World({FeePayerState, DataState}, {"K1"}, {"c1", "c2"},
                   {"AccountUpdatesError"}, TRUE),
             {})

ScenarioDisabled ==
    Scenario(Config(Permissions(FALSE, FALSE, FALSE, FALSE, TRUE), None, {"K2"},
                    None),
             HydratingWorld(
                World({FeePayerState}, {"K1", "K2"}, {"c1", "c2"}, {}, TRUE),
                [k \in {"K1"} |-> PlainAccount]),
             {"K1"})

ScenarioPrograms ==
    Scenario(Config(AllAllowed, Some({"K1"}), {}, None),
             World({ProgramState(LoaderUpgradeable), ProgramState(LoaderLegacy),
                    ProgramState(LoaderDeprecated)},
                   {"K1"}, {"c1"}, {"AccountFetcherError"}, FALSE),
             {})

ScenarioNotAllowed ==
    Scenario(Config(AllAllowed, Some({"K2"}), {}, None),
             World({ProgramState(LoaderUpgradeable), DataState},
                   {"K1"}, {"c1"}, {}, FALSE),
             {})

ScenarioBlacklist ==
    Scenario(Config(AllAllowed, None, {"K1"}, None),
             World({FeePayerState}, {"K1"}, {"c1", "c2"}, {}, FALSE),
             {"K1"})

ScenarioOverridden ==
    Scenario(Config(AllAllowed, None, {}, None),
             World({FeePayerState}, {"K2"}, {"c1", "c2"}, {}, FALSE),
             {"K2"})

ScenarioTwoKeys ==
    Scenario(Config(Permissions(TRUE, TRUE, TRUE, TRUE, FALSE), None, {}, None),
             World({FeePayerState}, {"K1", "K2"}, {"c1", "c2"}, {}, FALSE),
             {})

ScenarioNoRefresh ==
    Scenario(Config(Permissions(TRUE, TRUE, TRUE, TRUE, FALSE), None, {}, None),
             World({FeePayerState, DataState}, {"K1"}, {"c1", "c2"}, AllFaults,
                   TRUE),
             {})

\* No refresh, and the notifier reports updates of the key all the same.
ScenarioNoRefreshUpdated ==
    Scenario(Config(Permissions(TRUE, TRUE, TRUE, TRUE, FALSE), None, {}, None),
             ForeignUpdates(World({DataState}, {"K1"}, {"c1"}, {}, FALSE)),
             {})

\* An upgradable program cloned by a worker that does not refresh.
ScenarioProgramNoRefresh ==
    Scenario(Config(Permissions(TRUE, TRUE, TRUE, TRUE, FALSE), None, {}, None),
             World({ProgramState(LoaderUpgradeable)}, {"K1"}, {"c1"}, {}, FALSE),
             {})

\* A key that is cloned again and again while the chain runs over three slots.
ScenarioLongChain ==
    Scenario(Config(Permissions(FALSE, TRUE, FALSE, FALSE, TRUE), None, {}, None),
             LongChain(World({DataState}, {"K1"}, {"c1", "c2"}, {}, FALSE)),
             {})

ScenarioCancelled ==
    Scenario(Config(Permissions(TRUE, FALSE, FALSE, FALSE, TRUE), None, {}, None),
             World({FeePayerState}, {"K1"}, {"c1", "c2"}, {}, TRUE),
             {})

\* Hydration of an account that the chain holds as delegated: to nobody in
\* particular (no authority) with the owner the bank has, to this validator,
\* or to another one.
ScenarioHydrateDelegated ==
    Scenario(Config(AllAllowed, None, {}, None),
             HydratingWorld(
                World({Delegated(DelegationRecord(DefaultPubkey, "owner_program", 1)),
                       Delegated(DelegationRecord(ValidatorId, "owner_program", 1)),
                       DelegatedState(1)},
                      {"K1"}, {"c1"}, {}, FALSE),
                [k \in {"K1"} |-> PlainAccount]),
             {"K1"})

\* Hydration of an account that the chain holds as delegated to this
\* validator, or as undelegated data; a caller asks for the account later.
ScenarioHydrateSynthetic ==
    Scenario(Config(AllAllowed, None, {}, None),
             HydratingWorld(
                World({Delegated(DelegationRecord(ValidatorId, "owner_program", 1)),
                       DataState},
                      {"K1"}, {"c1"}, {}, FALSE),
                [k \in {"K1"} |-> PlainAccount]),
             {"K1"})

\* Hydration of an account that the chain holds as delegated to this
\* validator and as nothing else; a caller asks for the account later.
ScenarioHydrateOwn ==
    Scenario(Config(AllAllowed, None, {}, None),
             HydratingWorld(
                World({Delegated(DelegationRecord(ValidatorId, "owner_program", 1))},
                      {"K1"}, {"c1"}, {}, FALSE),
                [k \in {"K1"} |-> PlainAccount]),
             {"K1"})

\* Hydration of an account whose clone may fail at the fetcher or at the
\* dumper; a caller asks for the account later.
ScenarioHydrateFailing ==
    Scenario(Config(AllAllowed, None, {}, None),
             HydratingWorld(
                World({DataState}, {"K1"}, {"c1"},
                      {"AccountFetcherError", "AccountDumperError"}, FALSE),
                [k \in {"K1"} |-> PlainAccount]),
             {"K1"})

\* Hydration of a bank whose one account has too many lamports to be cloned;
\* a caller asks for the account later, and the notifier reports its updates.
ScenarioHydrateSkipped ==
    Scenario(Config(AllAllowed, None, {}, None),
             HydratingWorld(
                ForeignUpdates(World({DataState}, {"K1"}, {"c1"}, {}, FALSE)),
                [k \in {"K1"} |-> RichAccount]),
             {"K1"})

\* Hydration of a bank with two accounts: K1 is `account`, K2 is plain and
\* blacklisted or not.
ScenarioHydrate(account, blacklisted_accounts) ==
    Scenario(Config(AllAllowed, None, blacklisted_accounts, None),
             HydratingWorld(
                World({DataState}, {"K1", "K2"}, {}, {"AccountDumperError"}, FALSE),
                [k \in {"K1", "K2"} |-> IF k = "K1" THEN account ELSE PlainAccount]),
             {"K1", "K2"})

HydrateScenarios ==
    {ScenarioHydrate(account, {"K2"}) :
        account \in {PlainAccount, EdgeAccount, RichAccount, ProgramDataAccount}}
    \cup {ScenarioHydrate(account, {}) : account \in {RichAccount, ProgramDataAccount}}

\* Hydration of two accounts, one after the other, without refresh; the
\* fetcher and the dumper may fail.
ScenarioHydrateBoth ==
    Scenario(Config(Permissions(TRUE, TRUE, TRUE, TRUE, FALSE), None, {}, None),
             HydratingWorld(
                World({DataState}, {"K1", "K2"}, {},
                      {"AccountFetcherError", "AccountDumperError"}, FALSE),
                [k \in {"K1", "K2"} |-> PlainAccount]),
             {"K1", "K2"})

Scenarios ==
    {ScenarioDelegated, ScenarioNoFeePayer, ScenarioDisabled, ScenarioPrograms,
     ScenarioNotAllowed, ScenarioBlacklist, ScenarioOverridden, ScenarioTwoKeys,
     ScenarioNoRefresh, ScenarioNoRefreshUpdated, ScenarioLongChain,
     ScenarioProgramNoRefresh, ScenarioHydrateDelegated,
     ScenarioHydrateBoth}
    \cup HydrateScenarios

\* ------------------------------ initial state --------------------------

\* RemoteAccountClonerWorker::new: both maps empty, the channel empty.
InitWorker(sc) ==
    /\ cfg = sc.cfg
    /\ world = sc.world
    /\ clone_listeners = <<>>
    /\ last_clone_output = <<>>
    /\ channel = <<>>
    /\ loop = IF sc.world.hydrates THEN "created" ELSE "select"
    /\ tasks = <<>>
    /\ cancelled = FALSE
    /\ client = [c \in Clients |->
                    [pc |-> "idle", pubkey |-> CHOOSE k \in DOMAIN sc.world.chain : TRUE,
                     inbox |-> <<>>]]
    /\ last_known_update_slot = <<>>
    /\ first_subscribed_slot = <<>>
    /\ monitored = {}
    /\ bank = sc.local

Init == \E sc \in Scenarios : InitWorker(sc)

\* The runs checked for progress: two callers, retries, cancellation, programs.
FairScenarios ==
    {ScenarioCancelled, ScenarioPrograms, ScenarioNoRefresh, ScenarioDisabled,
     ScenarioHydrate(PlainAccount, {"K2"}), ScenarioHydrateBoth}

FairInit == \E sc \in FairScenarios : InitWorker(sc)

\* ------------------------------ callers ---------------------------------
\* The caller's side of the registration protocol.

\* (1) insert the sink into clone_listeners[k], creating the entry if absent;
\* the caller that created the entry is the one that will push the key.
ClientRegister(c, k) ==
    /\ client[c].pc = "idle"
    /\ c \in world.callers
    /\ k \in DOMAIN world.chain
    /\ IF k \in DOMAIN clone_listeners
         THEN /\ clone_listeners' =
                    Put(clone_listeners, k, Append(clone_listeners[k], c))
              /\ client' = [client EXCEPT ![c] =
                    [pc |-> "await", pubkey |-> k, inbox |-> <<>>]]
         ELSE /\ clone_listeners' = Put(clone_listeners, k, <<c>>)
              /\ client' = [client EXCEPT ![c] =
                    [pc |-> "push", pubkey |-> k, inbox |-> <<>>]]
    /\ UNCHANGED <<cfg, world, last_clone_output, channel, loop, tasks, cancelled,
                   envVars>>

\* (2) the first inserter pushes the key to the request channel.
ClientPush(c) ==
    /\ client[c].pc = "push"
    /\ channel' = Append(channel, client[c].pubkey)
    /\ client' = [client EXCEPT ![c].pc = "await"]
    /\ UNCHANGED <<cfg, world, clone_listeners, last_clone_output, loop, tasks,
                   cancelled, envVars>>

\* (3) the caller takes the message off its sink; the sink is then gone.
ClientReceive(c) ==
    /\ client[c].pc = "await"
    /\ client[c].inbox # <<>>
    /\ client' = [client EXCEPT ![c].pc = "idle", ![c].inbox = <<>>]
    /\ UNCHANGED <<cfg, world, clone_listeners, last_clone_output, channel, loop,
                   tasks, cancelled, envVars>>

\* ------------------------------ collaborators --------------------------

\* AccountUpdates: the subscription of a monitored key is confirmed at a slot.
SubscriptionConfirmed(k, s) ==
    /\ s \in world.slots
    /\ k \in monitored
    /\ k \notin DOMAIN first_subscribed_slot
    /\ first_subscribed_slot' = Put(first_subscribed_slot, k, s)
    /\ UNCHANGED <<cfg, world, clone_listeners, last_clone_output, channel, loop,
                   tasks, cancelled, client, last_known_update_slot, monitored, bank>>

\* AccountUpdates: the subscription of a monitored key reports an update at a
\* later slot than the last one.
AccountUpdated(k, s) ==
    /\ s \in world.slots
    /\ k \in monitored \/ (world.foreign_updates /\ k \in DOMAIN world.chain)
    /\ k \in DOMAIN last_known_update_slot => s > last_known_update_slot[k]
    /\ last_known_update_slot' = Put(last_known_update_slot, k, s)
    /\ UNCHANGED <<cfg, world, clone_listeners, last_clone_output, channel, loop,
                   tasks, cancelled, client, first_subscribed_slot, monitored, bank>>

\* The local bank drops an account (closed by a local transaction).
BankRemove(k) ==
    /\ k \in bank
    /\ bank' = bank \ {k}
    /\ UNCHANGED <<cfg, world, clone_listeners, last_clone_output, channel, loop,
                   tasks, cancelled, client, last_known_update_slot,
                   first_subscribed_slot, monitored>>

\* The owner of the cancellation token cancels it.
Cancel ==
    /\ world.cancellable
    /\ ~cancelled
    /\ cancelled' = TRUE
    /\ UNCHANGED <<cfg, world, clone_listeners, last_clone_output, channel, loop,
                   tasks, client, envVars>>

\* ------------------------------ request loop ---------------------------

\* The calls a run has made to the collaborators so far (observation only):
\* the number of ensure_account_monitoring calls, the fetcher calls and the
\* dumper calls with their arguments, in order, and what the lookups of the
\* addresses derived from a program came to.
NoCalls == [monitor |-> 0, fetch |-> <<>>, dump |-> <<>>, derived |-> <<>>]

\* fetch_account_chain_snapshot(address, min_context_slot), where the address
\* is the key itself or one derived from it (program data, anchor or shank IDL).
FetchOf(target, pubkey, min_context_slot) ==
    [target |-> target, pubkey |-> pubkey, min_context_slot |-> min_context_slot]

\* A call of the dumper function fn for pubkey; the arguments a function
\* does not take are None.
DumpOf(fn, pubkey, lamports, owner, idl) ==
    [fn |-> fn, pubkey |-> pubkey, lamports |-> lamports, owner |-> owner,
     idl |-> idl]

\* A future of process_clone_request(pubkey), not yet polled.
NewTask(pubkey) ==
    [pubkey |-> pubkey, stage |-> Running, pc |-> "start", fetch_count |-> 0,
     snapshot |-> None, result |-> None, calls |-> NoCalls]

\* recv_many(&mut requests, 100): the keys received ...
RecvMany(queue) == Take(queue, RecvLimit)

\* Mutation of RecvRest: the received keys are left in the queue.
RecvRestKeepsAll(queue) == queue

\* ... and what stays queued.
RecvRest(queue) == Drop(queue, RecvLimit)

\* Mutation of LoopReceive: the channel is also polled while join_all is
\* awaited, and the new futures run next to those of the batch in flight.
LoopReceiveWhileJoining ==
    /\ loop \in {"select", "join_all"}
    /\ channel # <<>>
    /\ LET requests == RecvMany(channel)
           batch == [i \in 1 .. Len(requests) |-> NewTask(requests[i])]
       IN  tasks' = IF loop = "select" THEN batch ELSE tasks \o batch
    /\ channel' = RecvRest(channel)
    /\ loop' = "join_all"
    /\ UNCHANGED <<cfg, world, clone_listeners, last_clone_output, cancelled,
                   client, envVars>>

\* select!, receive branch: take up to 100 queued keys and build one future
\* per key for join_all.
LoopReceive ==
    /\ loop = "select"
    /\ channel # <<>>
    /\ LET requests == RecvMany(channel)
       IN  tasks' = [i \in 1 .. Len(requests) |-> NewTask(requests[i])]
    /\ channel' = RecvRest(channel)
    /\ loop' = "join_all"
    /\ UNCHANGED <<cfg, world, clone_listeners, last_clone_output, cancelled,
                   client, envVars>>

\* join_all(...).await returns once every future of the batch is finished.
LoopJoined ==
    /\ loop = "join_all"
    /\ \A i \in 1 .. Len(tasks) : tasks[i].pc = "finished"
    /\ loop' = "select"
    /\ tasks' = <<>>
    /\ UNCHANGED <<cfg, world, clone_listeners, last_clone_output, channel,
                   cancelled, client, envVars>>

\* Mutation of LoopCancelled: the token is also polled while join_all is
\* awaited, and the futures of the batch are dropped.
LoopCancelledWhileJoining ==
    /\ loop \in {"select", "join_all"}
    /\ cancelled
    /\ loop' = "returned"
    /\ UNCHANGED <<cfg, world, clone_listeners, last_clone_output, channel, tasks,
                   cancelled, client, envVars>>

\* Mutation of LoopCancelled: select! is biased towards the request channel, the
\* token is looked at only when no key is queued.
LoopCancelledWhenIdle ==
    /\ loop = "select"
    /\ channel = <<>>
    /\ cancelled
    /\ loop' = "returned"
    /\ UNCHANGED <<cfg, world, clone_listeners, last_clone_output, channel, tasks,
                   cancelled, client, envVars>>

\* select!, cancellation branch: return.
LoopCancelled ==
    /\ loop = "select"
    /\ cancelled
    /\ loop' = "returned"
    /\ UNCHANGED <<cfg, world, clone_listeners, last_clone_output, channel, tasks,
                   cancelled, client, envVars>>

\* ------------------------------ per-key task ---------------------------

\* Mutation of allow_cloning_refresh: do_clone always takes the refreshing path.
allow_cloning_refresh_always == TRUE

\* do_clone, `if self.permissions.allow_cloning_refresh`
allow_cloning_refresh == cfg.permissions.allow_cloning_refresh

\* Mutation of can_clone: the refresh bit counts as a permission to clone.
can_clone_or_refresh ==
    \/ cfg.permissions.allow_cloning_feepayer_accounts
    \/ cfg.permissions.allow_cloning_undelegated_accounts
    \/ cfg.permissions.allow_cloning_delegated_accounts
    \/ cfg.permissions.allow_cloning_program_accounts
    \/ cfg.permissions.allow_cloning_refresh

can_clone ==
    \/ cfg.permissions.allow_cloning_feepayer_accounts
    \/ cfg.permissions.allow_cloning_undelegated_accounts
    \/ cfg.permissions.allow_cloning_delegated_accounts
    \/ cfg.permissions.allow_cloning_program_accounts

get_last_clone_output(pubkey) == Get(last_clone_output, pubkey)

\* The cached output can be used as is: its slot is not older than the last
\* known update of the key.
CacheIsFresh(output, update_slot) == output.at_slot >= update_slot

\* Mutation of ClonedIsFresh: a clone at the very slot of the update is stale.
ClonedIsFreshStrict(output, update_slot) ==
    output.account_chain_snapshot.at_slot > update_slot

\* Mutation of ClonedIsFresh: a cached clone is never taken as it is.
ClonedIsNeverFresh(output, update_slot) == FALSE

ClonedIsFresh(output, update_slot) ==
    output.account_chain_snapshot.at_slot >= update_slot

\* Signature::new_unique(): a signature no live value carries.
UsedSignatures ==
    LET OfOutput(o) == IF o.tag = "Cloned" THEN {o.signature} ELSE {}
        OfResult(r) == IF r.ok THEN OfOutput(r.val) ELSE {}
    IN  UNION ( {OfOutput(last_clone_output[k]) : k \in DOMAIN last_clone_output}
          \cup {OfResult(r) : r \in UNION {tasks[i].result : i \in DOMAIN tasks}}
          \cup {OfResult(r) : r \in UNION {{client[c].inbox[n] :
                                             n \in DOMAIN client[c].inbox} :
                                           c \in Clients}} )

NewUniqueSignature ==
    CHOOSE n \in 1 .. Cardinality(UsedSignatures) + 1 :
        /\ n \notin UsedSignatures
        /\ \A m \in 1 .. n - 1 : m \in UsedSignatures

\* A run ends with `result`: the future of do_clone_or_use_cache is ready.
Returned(t, result) == [t EXCEPT !.pc = "done", !.result = Some(result)]

\* Mutation of UpdateCache: an output is inserted only for a key the cache
\* does not hold yet.
UpdateCacheIfVacant(cache, pubkey, result) ==
    IF result.ok /\ pubkey \notin DOMAIN cache
      THEN Put(cache, pubkey, result.val)
      ELSE cache

\* Mutation of UpdateCache: an error evicts the entry of the key.
UpdateCacheEvictsOnError(cache, pubkey, result) ==
    IF result.ok THEN Put(cache, pubkey, result.val) ELSE Remove(cache, pubkey)

\* do_clone_and_update_cache, after do_clone returned: `?` passes an error on
\* without touching the cache, an output is inserted and returned.
UpdateCache(cache, pubkey, result) ==
    IF result.ok THEN Put(cache, pubkey, result.val) ELSE cache

\* Mutation of DoCloneOrUseCache: a key without a cache entry is refreshed
\* whether or not the bank holds it.
DoCloneOrUseCacheIgnoresBank(i) ==
    LET t == tasks[i]
        pubkey == t.pubkey
        update_slot == UnwrapOr(Get(last_known_update_slot, pubkey), 0)
        cached == get_last_clone_output(pubkey)
        refresh == [t EXCEPT !.pc = "do_clone"]
        next ==
            IF ~can_clone
              THEN Returned(t, Ok(Unclonable(pubkey, "NoCloningAllowed", U64_MAX)))
            ELSE IF IsSome(cached)
              THEN LET output == Unwrap(cached)
                   IN  IF output.tag = "Cloned"
                         THEN IF ClonedIsFresh(output, update_slot)
                                THEN Returned(t, Ok(output))
                                ELSE refresh
                         ELSE IF CacheIsFresh(output, update_slot)
                                THEN Returned(t, Ok(output))
                                ELSE refresh
            ELSE refresh
    IN  /\ i \in DOMAIN tasks
        /\ t.pc = "start"
        /\ tasks' = [tasks EXCEPT ![i] = next]
        /\ UNCHANGED <<cfg, world, clone_listeners, last_clone_output, channel,
                       loop, cancelled, client, envVars>>

\* do_clone_or_use_cache up to the call of do_clone_and_update_cache.
\* No collaborator is called and nothing is written.
DoCloneOrUseCache(i) ==
    LET t == tasks[i]
        pubkey == t.pubkey
        update_slot == UnwrapOr(Get(last_known_update_slot, pubkey), 0)
        cached == get_last_clone_output(pubkey)
        refresh == [t EXCEPT !.pc = "do_clone"]
        next ==
            IF ~can_clone
              THEN Returned(t, Ok(Unclonable(pubkey, "NoCloningAllowed", U64_MAX)))
            ELSE IF IsSome(cached)
              THEN LET output == Unwrap(cached)
                   IN  IF output.tag = "Cloned"
                         THEN IF ClonedIsFresh(output, update_slot)
                                THEN Returned(t, Ok(output))
                                ELSE refresh
                         ELSE IF CacheIsFresh(output, update_slot)
                                THEN Returned(t, Ok(output))
                                ELSE refresh
            ELSE IF pubkey \in bank
              THEN Returned(t, Ok(Unclonable(pubkey, "AlreadyLocallyOverriden",
                                             U64_MAX)))
            ELSE refresh
    IN  /\ i \in DOMAIN tasks
        /\ t.pc = "start"
        /\ tasks' = [tasks EXCEPT ![i] = next]
        /\ UNCHANGED <<cfg, world, clone_listeners, last_clone_output, channel,
                       loop, cancelled, client, envVars>>

\* Mutation of Blacklisted: the blacklist is never consulted.
BlacklistedNever(pubkey) == FALSE

\* blacklisted_accounts.contains(pubkey)
Blacklisted(pubkey) == pubkey \in cfg.blacklisted_accounts

\* Mutation of EnsureMonitoring: the error of the notifier is dropped and the
\* run goes on to fetch.
EnsureMonitoringIgnoresError(t, monitoring) == [t EXCEPT !.pc = "fetch"]

\* ensure_account_monitoring(pubkey).map_err(AccountUpdatesError)? : the run
\* goes on to the fetch loop, or returns the notifier's error.
EnsureMonitoring(t, monitoring) ==
    IF monitoring = "ok"
      THEN [t EXCEPT !.pc = "fetch"]
      ELSE Returned(t, Err(monitoring))

\* do_clone from its entry to the first fetch: the blacklist test, then
\* ensure_account_monitoring when refreshing is allowed.
DoCloneBegin(i) ==
    LET t == tasks[i]
        pubkey == t.pubkey
    IN  /\ i \in DOMAIN tasks
        /\ t.pc = "do_clone"
        /\ IF Blacklisted(pubkey)
             THEN LET result == Ok(Unclonable(pubkey, "IsBlacklisted", U64_MAX))
                  IN  /\ tasks' = [tasks EXCEPT ![i] = Returned(t, result)]
                      /\ last_clone_output' =
                            UpdateCache(last_clone_output, pubkey, result)
                      /\ UNCHANGED monitored
           ELSE IF allow_cloning_refresh
             THEN \E monitoring \in {"ok"} \cup (world.faults \cap {"AccountUpdatesError"}) :
                    LET called == [t EXCEPT !.calls.monitor = @ + 1]
                    IN  /\ tasks' = [tasks EXCEPT ![i] =
                                        EnsureMonitoring(called, monitoring)]
                        /\ monitored' = IF monitoring = "ok"
                                           THEN monitored \cup {pubkey}
                                           ELSE monitored
                        /\ UNCHANGED last_clone_output
           ELSE /\ tasks' = [tasks EXCEPT ![i] =
                      [t EXCEPT !.pc = "fetching",
                                !.calls.fetch = Append(@, FetchOf("account", pubkey, None))]]
                /\ UNCHANGED <<monitored, last_clone_output>>
        /\ UNCHANGED <<cfg, world, clone_listeners, channel, loop, cancelled,
                       client, last_known_update_slot, first_subscribed_slot, bank>>

\* Mutation of MinContextSlot: the fetcher is called without a minimum slot.
MinContextSlotNone(pubkey) == None

\* The min_context_slot of a fetch: the first subscribed slot of the key.
MinContextSlot(pubkey) == Get(first_subscribed_slot, pubkey)

\* One turn of the fetch loop up to the await of the fetcher: count the
\* attempt, read first_subscribed_slot and call the fetcher with it.
FetchCall(i) ==
    LET t == tasks[i]
        min_context_slot == MinContextSlot(t.pubkey)
    IN  /\ i \in DOMAIN tasks
        /\ t.pc = "fetch"
        /\ tasks' = [tasks EXCEPT ![i] =
              [t EXCEPT !.pc = "fetching",
                        !.fetch_count = @ + 1,
                        !.calls.fetch = Append(@, FetchOf("account", t.pubkey,
                                                          min_context_slot))]]
        /\ UNCHANGED <<cfg, world, clone_listeners, last_clone_output, channel,
                       loop, cancelled, client, envVars>>

\* What the fetcher may answer for a key: an error, or a snapshot of one of
\* the states the chain holds for it at some slot.
FetcherReplies(pubkey) ==
    {Err(e) : e \in world.faults \cap {"AccountFetcherError"}} \cup
    (IF pubkey \in DOMAIN world.chain
       THEN {Ok(Snapshot(pubkey, s, st)) :
                s \in world.slots, st \in world.chain[pubkey]}
       ELSE {})

\* Mutation of Satisfactory: the first snapshot the fetcher returns is taken.
SatisfactoryAlways(snapshot, subscribed) == TRUE

\* Mutation of Satisfactory: an unknown first subscribed slot counts as 0.
SatisfactoryWhenUnsubscribed(snapshot, subscribed) ==
    snapshot.at_slot >= UnwrapOr(subscribed, 0)

\* Mutation of Satisfactory: a snapshot one slot short is taken too.
SatisfactoryOffByOne(snapshot, subscribed) ==
    snapshot.at_slot + 1 >= UnwrapOr(subscribed, U64_MAX)

\* The snapshot is satisfactory: not older than the first subscribed slot.
Satisfactory(snapshot, subscribed) ==
    snapshot.at_slot >= UnwrapOr(subscribed, U64_MAX)

\* Mutation of RetriesExhausted: one attempt too many.
RetriesExhaustedLate(fetch_count) == fetch_count > fetch_retries

\* Mutation of RetriesExhausted: the last attempt is never made.
RetriesExhaustedEarly(fetch_count) == fetch_count + 1 >= fetch_retries

\* The retries are used up.
RetriesExhausted(fetch_count) == fetch_count >= fetch_retries

\* The fetcher answers.  With refresh allowed: accept the snapshot if it is
\* satisfactory, else give up after fetch_retries attempts, else sleep and
\* retry.  Without refresh the single answer is taken as it comes.
FetchReturn(i) ==
    LET t == tasks[i]
        pubkey == t.pubkey
    IN  /\ i \in DOMAIN tasks
        /\ t.pc = "fetching"
        /\ \E reply \in FetcherReplies(pubkey) :
             LET accepted == [t EXCEPT !.pc = "classify",
                                       !.snapshot = Some(reply.val)]
                 retry == [t EXCEPT !.pc = "fetch"]
                 next ==
                    IF allow_cloning_refresh
                      THEN IF reply.ok
                             THEN IF Satisfactory(reply.val,
                                        Get(first_subscribed_slot, pubkey))
                                    THEN accepted
                                  ELSE IF RetriesExhausted(t.fetch_count)
                                    THEN Returned(t,
                                           Err("FailedToFetchSatisfactorySlot"))
                                  ELSE retry
                           ELSE IF RetriesExhausted(t.fetch_count)
                                  THEN Returned(t, reply)
                                ELSE retry
                    ELSE IF reply.ok THEN accepted ELSE Returned(t, reply)
             IN  tasks' = [tasks EXCEPT ![i] = next]
        /\ UNCHANGED <<cfg, world, clone_listeners, last_clone_output, channel,
                       loop, cancelled, client, envVars>>

\* ------------------------------ classification and dump ----------------

\* Mutation of should_clone_delegated_account: every delegated account is
\* cloned, in hydration as in normal operation.
should_clone_always(stage, record) == TRUE

\* Mutation of should_clone_delegated_account: the owner heuristic is used
\* whether or not the record carries an authority.
should_clone_by_owner_only(stage, record) ==
    IF stage.stage = "Hydrating"
      THEN stage.account_owner # record.owner
      ELSE TRUE

should_clone_delegated_account(stage, record) ==
    IF stage.stage = "Hydrating"
      THEN IF record.authority # DefaultPubkey
             THEN record.authority # stage.validator_identity
             ELSE stage.account_owner # record.owner
      ELSE TRUE

\* The dumper either executes its transaction, which yields a signature, or
\* fails.
DumperOutcomes == {"ok"} \cup (world.faults \cap {"AccountDumperError"})

DumperResult(outcome) ==
    IF outcome = "ok" THEN Ok(NewUniqueSignature) ELSE Err(outcome)

\* Mutation of SameDelegation: any cached clone of a Delegated snapshot is
\* reused, whatever its delegation slot.
SameDelegationAnySlot(cached, delegation_slot) ==
    /\ IsSome(cached)
    /\ Unwrap(cached).tag = "Cloned"
    /\ Unwrap(cached).account_chain_snapshot.chain_state.kind = "Delegated"

\* Mutation of SameDelegation: a cached clone is never reused.
SameDelegationNever(cached, delegation_slot) == FALSE

\* do_clone_delegated_account, the reuse test: the key was already cloned
\* from a Delegated snapshot of the same delegation slot.
SameDelegation(cached, delegation_slot) ==
    /\ IsSome(cached)
    /\ Unwrap(cached).tag = "Cloned"
    /\ Unwrap(cached).account_chain_snapshot.chain_state.kind = "Delegated"
    /\ Unwrap(cached).account_chain_snapshot.chain_state.delegation_record
          .delegation_slot = delegation_slot

\* The end of do_clone inside do_clone_and_update_cache: a signature becomes
\* Cloned{snapshot, signature}, and the output (if any) is written to the cache.
Finish(i, t, result) ==
    /\ tasks' = [tasks EXCEPT ![i] = Returned(t, result)]
    /\ last_clone_output' = UpdateCache(last_clone_output, t.pubkey, result)

ClonedOrError(snapshot, signature) ==
    IF signature.ok THEN Ok(Cloned(snapshot, signature.val)) ELSE signature

\* The dumper is called with `call`; the run ends with its outcome.
DumpAndFinish(i, t, snapshot, call) ==
    \E outcome \in DumperOutcomes :
        /\ Finish(i, [t EXCEPT !.calls.dump = Append(@, call)],
                  ClonedOrError(snapshot, DumperResult(outcome)))
        /\ bank' = IF outcome = "ok" THEN bank \cup {t.pubkey} ELSE bank

\* Mutation of FinishWithoutDump: the dumper is called before the run ends.
FinishAfterDump(i, t, result) ==
    /\ Finish(i, [t EXCEPT !.calls.dump =
                     Append(@, DumpOf("dump_undelegated_account", t.pubkey, None,
                                      None, None))],
              result)
    /\ UNCHANGED bank

FinishWithoutDump(i, t, result) ==
    /\ Finish(i, t, result)
    /\ UNCHANGED bank

\* Mutation of FeePayerLamports: the lamports on chain are always used.
FeePayerLamportsOfChain(lamports) == lamports

\* do_clone_feepayer_account: payer_init_lamports.unwrap_or(lamports)
FeePayerLamports(lamports) == UnwrapOr(cfg.payer_init_lamports, lamports)

\* do_clone after the fetch loop: the match on the snapshot's chain state.
\* Every branch but the upgradable-program one runs to the end of
\* do_clone_and_update_cache without suspending.
Classify(i) ==
    LET t == tasks[i]
        pubkey == t.pubkey
        snapshot == Unwrap(t.snapshot)
        state == snapshot.chain_state
        perms == cfg.permissions
        Refuse(reason, slot) ==
            FinishWithoutDump(i, t, Ok(Unclonable(pubkey, reason, slot)))
    IN  /\ i \in DOMAIN tasks
        /\ t.pc = "classify"
        /\ CASE state.kind = "FeePayer" ->
                  IF ~perms.allow_cloning_feepayer_accounts
                    THEN Refuse("DoesNotAllowFeePayerAccount", snapshot.at_slot)
                    ELSE DumpAndFinish(i, t, snapshot,
                           DumpOf("dump_feepayer_account", pubkey,
                                  Some(FeePayerLamports(state.lamports)),
                                  Some(state.owner), None))
             [] state.kind = "Undelegated" /\ state.executable ->
                  IF /\ IsSome(cfg.allowed_program_ids)
                     /\ pubkey \notin Unwrap(cfg.allowed_program_ids)
                    THEN Refuse("IsNotAnAllowedProgram", U64_MAX)
                  ELSE IF ~perms.allow_cloning_program_accounts
                    THEN Refuse("DoesNotAllowProgramAccount", snapshot.at_slot)
                  ELSE IF state.owner = LoaderDeprecated
                    THEN FinishWithoutDump(i, t, Err("ProgramDataDoesNotExist"))
                  ELSE IF state.owner = LoaderLegacy
                    THEN DumpAndFinish(i, t, snapshot,
                           DumpOf("dump_program_account_with_old_bpf", pubkey,
                                  None, None, None))
                  ELSE /\ tasks' = [tasks EXCEPT ![i] =
                             [t EXCEPT !.pc = "program_data",
                                       !.calls.fetch = Append(@,
                                           FetchOf("program_data", pubkey,
                                                   Some(snapshot.at_slot)))]]
                       /\ UNCHANGED <<last_clone_output, bank>>
             [] state.kind = "Undelegated" /\ ~state.executable ->
                  IF ~perms.allow_cloning_undelegated_accounts
                    THEN Refuse("DoesNotAllowUndelegatedAccount", snapshot.at_slot)
                    ELSE DumpAndFinish(i, t, snapshot,
                           DumpOf("dump_undelegated_account", pubkey, None, None,
                                  None))
             [] state.kind = "Delegated" ->
                  IF ~perms.allow_cloning_delegated_accounts
                    THEN Refuse("DoesNotAllowDelegatedAccount", snapshot.at_slot)
                  ELSE IF ~should_clone_delegated_account(t.stage,
                                                          state.delegation_record)
                    THEN FinishWithoutDump(i, t,
                           Ok(Cloned(snapshot, NewUniqueSignature)))
                  ELSE IF SameDelegation(get_last_clone_output(pubkey),
                                         state.delegation_record.delegation_slot)
                    THEN FinishWithoutDump(i, t,
                           Ok(Cloned(snapshot,
                                     Unwrap(get_last_clone_output(pubkey))
                                        .signature)))
                  ELSE DumpAndFinish(i, t, snapshot,
                         DumpOf("dump_delegated_account", pubkey, None,
                                Some(state.delegation_record.owner), None))
        /\ UNCHANGED <<cfg, world, clone_listeners, channel, loop, cancelled,
                       client, last_known_update_slot, first_subscribed_slot,
                       monitored>>

\* ------------------------------ upgradable programs --------------------

\* What the fetcher may answer for a derived address: an error, a snapshot
\* that carries no account, or one that carries an account.
DerivedReplies ==
    {Err(e) : e \in world.faults \cap {"AccountFetcherError"}}
      \cup {Ok(None), Ok(Some("account"))}

\* get_pubkey_anchor_idl / get_pubkey_shank_idl yield an address or nothing.
Derivable == BOOLEAN

\* Mutation of DumpProgram: the upgradable path ends in the dump of the legacy
\* loader.
DumpProgramLegacy(i, t, idl) ==
    DumpAndFinish(i, t, Unwrap(t.snapshot),
                  DumpOf("dump_program_account_with_old_bpf", t.pubkey, None,
                         None, None))

DumpProgram(i, t, idl) ==
    DumpAndFinish(i, t, Unwrap(t.snapshot),
                  DumpOf("dump_program_accounts", t.pubkey, None, None, idl))

\* Mutation of AwaitDerived: the IDL addresses are fetched with the
\* min_context_slot of the fetch of the program account.
AwaitDerivedAtOuterSlot(i, t, target) ==
    /\ tasks' = [tasks EXCEPT ![i] =
          [t EXCEPT !.pc = target,
                    !.calls.fetch = Append(@,
                        FetchOf(target, t.pubkey,
                                IF allow_cloning_refresh
                                  THEN MinContextSlot(t.pubkey) ELSE None))]]
    /\ UNCHANGED <<last_clone_output, bank>>

\* try_fetch_program_idl_snapshot up to the await of the fetcher: the address
\* is fetched with the min_context_slot that do_clone passed down, the slot of
\* the snapshot of the program account.
AwaitDerived(i, t, target) ==
    /\ tasks' = [tasks EXCEPT ![i] =
          [t EXCEPT !.pc = target,
                    !.calls.fetch = Append(@,
                        FetchOf(target, t.pubkey,
                                Some(Unwrap(t.snapshot).at_slot)))]]
    /\ UNCHANGED <<last_clone_output, bank>>

\* What the lookup of a derived address came to: there is no such address,
\* the fetch failed, the snapshot carries no account, or it carries one.
OutcomeOf(reply) ==
    IF ~reply.ok THEN "error" ELSE IF reply.val = None THEN "absent" ELSE "account"

Looked(t, target, outcome) ==
    [t EXCEPT !.calls.derived =
        Append(@, [target |-> target, outcome |-> outcome])]

\* fetch_program_idl from the shank attempt on.
TryShankIdl(i, t) ==
    \E derived \in Derivable :
        IF derived
          THEN AwaitDerived(i, t, "shank_idl")
          ELSE DumpProgram(i, Looked(t, "shank_idl", "no_address"), None)

\* Mutation of TryAnchorIdl: the shank IDL is looked up right away.
TryAnchorIdlShankFirst(i, t) == TryShankIdl(i, t)

\* fetch_program_idl from its entry.
TryAnchorIdl(i, t) ==
    \E derived \in Derivable :
        IF derived
          THEN AwaitDerived(i, t, "anchor_idl")
          ELSE TryShankIdl(i, Looked(t, "anchor_idl", "no_address"))

\* The fetch of the program data account returns.
ProgramDataReturn(i) ==
    LET t == tasks[i]
    IN  /\ i \in DOMAIN tasks
        /\ t.pc = "program_data"
        /\ \E reply \in DerivedReplies :
             LET u == Looked(t, "program_data", OutcomeOf(reply))
             IN  IF ~reply.ok
                   THEN FinishWithoutDump(i, u, reply)
                 ELSE IF reply.val = None
                   THEN FinishWithoutDump(i, u, Err("ProgramDataDoesNotExist"))
                 ELSE TryAnchorIdl(i, u)
        /\ UNCHANGED <<cfg, world, clone_listeners, channel, loop, cancelled,
                       client, last_known_update_slot, first_subscribed_slot,
                       monitored>>

\* Mutation of AnchorIdlReturn: a failed fetch of the anchor IDL counts as an
\* absent IDL.
AnchorIdlReturnSwallowsError(i) ==
    LET t == tasks[i]
    IN  /\ i \in DOMAIN tasks
        /\ t.pc = "anchor_idl"
        /\ \E reply \in DerivedReplies :
             LET u == Looked(t, "anchor_idl", OutcomeOf(reply))
             IN  IF reply.ok /\ reply.val # None
                   THEN DumpProgram(i, u, Some("anchor_idl"))
                   ELSE TryShankIdl(i, u)
        /\ UNCHANGED <<cfg, world, clone_listeners, channel, loop, cancelled,
                       client, last_known_update_slot, first_subscribed_slot,
                       monitored>>

\* The fetch of the anchor IDL account returns.
AnchorIdlReturn(i) ==
    LET t == tasks[i]
    IN  /\ i \in DOMAIN tasks
        /\ t.pc = "anchor_idl"
        /\ \E reply \in DerivedReplies :
             LET u == Looked(t, "anchor_idl", OutcomeOf(reply))
             IN  IF ~reply.ok
                   THEN FinishWithoutDump(i, u, reply)
                 ELSE IF reply.val # None
                   THEN DumpProgram(i, u, Some("anchor_idl"))
                 ELSE TryShankIdl(i, u)
        /\ UNCHANGED <<cfg, world, clone_listeners, channel, loop, cancelled,
                       client, last_known_update_slot, first_subscribed_slot,
                       monitored>>

\* The fetch of the shank IDL account returns.
ShankIdlReturn(i) ==
    LET t == tasks[i]
    IN  /\ i \in DOMAIN tasks
        /\ t.pc = "shank_idl"
        /\ \E reply \in DerivedReplies :
             LET u == Looked(t, "shank_idl", OutcomeOf(reply))
             IN  IF ~reply.ok
                   THEN FinishWithoutDump(i, u, reply)
                 ELSE IF reply.val # None
                   THEN DumpProgram(i, u, Some("shank_idl"))
                 ELSE DumpProgram(i, u, None)
        /\ UNCHANGED <<cfg, world, clone_listeners, channel, loop, cancelled,
                       client, last_known_update_slot, first_subscribed_slot,
                       monitored>>

\* ------------------------------ notification ---------------------------

\* How often sink c occurs in the list.
Occurrences(listeners, c) ==
    Cardinality({n \in DOMAIN listeners : listeners[n] = c})

\* listener.send(result.clone()) for every listener of the list.
SendAll(sinks, listeners, result) ==
    [c \in DOMAIN sinks |->
        [sinks[c] EXCEPT !.inbox =
            @ \o [n \in 1 .. Occurrences(listeners, c) |-> result]]]

\* Mutation of ConsumeListeners: the list is drained, the entry stays.
ConsumeListenersKeepsEntry(listeners, pubkey) == Put(listeners, pubkey, <<>>)

\* Mutation of ConsumeListeners: the list is read and the entry is left in the
\* map as it is.
ConsumeListenersReadsOnly(listeners, pubkey) == listeners

\* The listener map once the entry of pubkey has been consumed.
ConsumeListeners(listeners, pubkey) == Remove(listeners, pubkey)

\* Mutation of Notify: the entry of the key is created when it is absent and
\* stays in the map, empty.
NotifyCreatesEntry(i) ==
    LET t == tasks[i]
        pubkey == t.pubkey
    IN  /\ i \in DOMAIN tasks
        /\ t.pc = "done"
        /\ t.stage = Running
        /\ tasks' = [tasks EXCEPT ![i].pc = "finished"]
        /\ IF pubkey \in DOMAIN clone_listeners
             THEN /\ clone_listeners' = ConsumeListeners(clone_listeners, pubkey)
                  /\ client' = SendAll(client, clone_listeners[pubkey],
                                       Unwrap(t.result))
             ELSE /\ clone_listeners' = Put(clone_listeners, pubkey, <<>>)
                  /\ UNCHANGED client
        /\ UNCHANGED <<cfg, world, last_clone_output, channel, loop, cancelled,
                       envVars>>

\* process_clone_request after do_clone_or_use_cache returned: take the entry
\* of the key out of clone_listeners and send the result to each listener;
\* without an entry, log an error and return.
Notify(i) ==
    LET t == tasks[i]
        pubkey == t.pubkey
    IN  /\ i \in DOMAIN tasks
        /\ t.pc = "done"
        /\ t.stage = Running
        /\ tasks' = [tasks EXCEPT ![i].pc = "finished"]
        /\ IF pubkey \in DOMAIN clone_listeners
             THEN /\ clone_listeners' = ConsumeListeners(clone_listeners, pubkey)
                  /\ client' = SendAll(client, clone_listeners[pubkey],
                                       Unwrap(t.result))
             ELSE UNCHANGED <<clone_listeners, client>>
        /\ UNCHANGED <<cfg, world, last_clone_output, channel, loop, cancelled,
                       envVars>>

\* ------------------------------ hydration ------------------------------

\* Mutation of HydrateFilter: the lamports guard takes the bound itself too.
HydrateFilterFromHalf(pubkey, account) ==
    /\ ~Blacklisted(pubkey)
    /\ ~(account.lamports >= U64_MAX_HALF)
    /\ ~(~account.executable /\ account.owner = LoaderUpgradeable)

\* hydrate, the filters on get_all_accounts(): not blacklisted, lamports not
\* above u64::MAX / 2, not the data account of an upgradable program.
HydrateFilter(pubkey, account) ==
    /\ ~Blacklisted(pubkey)
    /\ ~(account.lamports > U64_MAX_HALF)
    /\ ~(~account.executable /\ account.owner = LoaderUpgradeable)

\* The keys hydrate collects, a HashSet ...
account_keys == {k \in bank : HydrateFilter(k, world.accounts[k])}

\* ... and the orders in which the for loop may visit them.
Orders(keys) ==
    {order \in [1 .. Cardinality(keys) -> keys] :
        \A m, n \in 1 .. Cardinality(keys) : order[m] = order[n] => m = n}

\* do_clone_and_update_cache(pubkey, Hydrating{validator_identity, owner}): the
\* first of the loop is called, the others wait for their turn.
HydrateTask(pubkey, owner, first) ==
    [NewTask(pubkey) EXCEPT
        !.stage = Hydrating(cfg.validator_identity, owner),
        !.pc = IF first THEN "do_clone" ELSE "queued"]

\* hydrate up to its first await: return at once when cloning is disabled,
\* else collect the keys and start the loop over them.
Hydrate ==
    /\ loop = "created"
    /\ IF ~can_clone
         THEN /\ loop' = "select"
              /\ UNCHANGED tasks
         ELSE /\ loop' = "hydrating"
              /\ \E order \in Orders(account_keys) :
                    tasks' = [i \in DOMAIN order |->
                                 HydrateTask(order[i], world.accounts[order[i]].owner,
                                             i = 1)]
    /\ UNCHANGED <<cfg, world, clone_listeners, last_clone_output, channel,
                   cancelled, client, envVars>>

\* Mutation of HydrateLogged: an error ends the pass, the keys that are left
\* are not visited.
HydrateLoggedAbortsOnError(i) ==
    /\ i \in DOMAIN tasks
    /\ loop = "hydrating"
    /\ tasks[i].pc = "done"
    /\ tasks' = [j \in DOMAIN tasks |->
                    IF j = i THEN [tasks[j] EXCEPT !.pc = "logged"]
                    ELSE IF j > i /\ ~Unwrap(tasks[i].result).ok
                      THEN [tasks[j] EXCEPT !.pc = "logged"]
                    ELSE IF j = i + 1 THEN [tasks[j] EXCEPT !.pc = "do_clone"]
                    ELSE tasks[j]]
    /\ UNCHANGED <<cfg, world, clone_listeners, last_clone_output, channel, loop,
                   cancelled, client, envVars>>

\* hydrate, `match res`: the result of one key is logged, whatever it is, and
\* the loop goes on to the next key.
HydrateLogged(i) ==
    /\ i \in DOMAIN tasks
    /\ loop = "hydrating"
    /\ tasks[i].pc = "done"
    /\ tasks' = [j \in DOMAIN tasks |->
                    IF j = i THEN [tasks[j] EXCEPT !.pc = "logged"]
                    ELSE IF j = i + 1 THEN [tasks[j] EXCEPT !.pc = "do_clone"]
                    ELSE tasks[j]]
    /\ UNCHANGED <<cfg, world, clone_listeners, last_clone_output, channel, loop,
                   cancelled, client, envVars>>

\* hydrate returns after its last key; the request loop starts.
HydrateReturn ==
    /\ loop = "hydrating"
    /\ \A i \in DOMAIN tasks : tasks[i].pc = "logged"
    /\ loop' = "select"
    /\ tasks' = <<>>
    /\ UNCHANGED <<cfg, world, clone_listeners, last_clone_output, channel,
                   cancelled, client, envVars>>

\* ------------------------------ specification --------------------------

\* The futures join_all can hold: one per key under the callers' protocol,
\* and one more.
TaskIds == 1 .. Cardinality(Keys) + 1

Next ==
    \/ \E c \in Clients, k \in Keys : ClientRegister(c, k)
    \/ \E c \in Clients : ClientPush(c)
    \/ \E c \in Clients : ClientReceive(c)
    \/ LoopReceive
    \/ LoopJoined
    \/ LoopCancelled
    \/ \E i \in TaskIds : DoCloneOrUseCache(i)
    \/ \E i \in TaskIds : DoCloneBegin(i)
    \/ \E i \in TaskIds : FetchCall(i)
    \/ \E i \in TaskIds : FetchReturn(i)
    \/ \E i \in TaskIds : Classify(i)
    \/ \E i \in TaskIds : ProgramDataReturn(i)
    \/ \E i \in TaskIds : AnchorIdlReturn(i)
    \/ \E i \in TaskIds : ShankIdlReturn(i)
    \/ \E i \in TaskIds : Notify(i)
    \/ Hydrate
    \/ \E i \in TaskIds : HydrateLogged(i)
    \/ HydrateReturn
    \/ \E k \in Keys, s \in LaterSlots : SubscriptionConfirmed(k, s)
    \/ \E k \in Keys, s \in LaterSlots : AccountUpdated(k, s)
    \/ \E k \in Keys : BankRemove(k)
    \/ Cancel

Spec == Init /\ [][Next]_vars

\* Any step of future i: the scheduler polls every future that can run, and
\* the collaborators answer every call.
TaskStep(i) ==
    \/ DoCloneOrUseCache(i)
    \/ DoCloneBegin(i)
    \/ FetchCall(i)
    \/ FetchReturn(i)
    \/ Classify(i)
    \/ ProgramDataReturn(i)
    \/ AnchorIdlReturn(i)
    \/ ShankIdlReturn(i)
    \/ Notify(i)

\* The runtime keeps polling the loop and its futures, and a caller that has
\* inserted its sink goes on to push the key.
Fairness ==
    /\ \A i \in TaskIds : WF_vars(TaskStep(i))
    /\ WF_vars(LoopReceive)
    /\ WF_vars(LoopJoined)
    /\ SF_vars(LoopCancelled)
    /\ WF_vars(Hydrate)
    /\ \A i \in TaskIds : WF_vars(HydrateLogged(i))
    /\ WF_vars(HydrateReturn)
    /\ \A c \in Clients : WF_vars(ClientPush(c))

FairSpec == FairInit /\ [][Next]_vars /\ Fairness

\* ------------------------------ protocol violations --------------------
\* The worker next to a sender that pushes keys without registering a sink.

ScenarioRogue ==
    Scenario(Config(Permissions(TRUE, TRUE, TRUE, TRUE, FALSE), None, {}, None),
             World({DataState}, {"K1"}, {"c1"}, {"AccountDumperError"}, FALSE),
             {})

RogueInit == InitWorker(ScenarioRogue)

\* clone_request_sender.send(k) by a holder of the sender that has put no sink
\* into clone_listeners, while fewer than MaxQueued keys are queued.
RoguePush(k) ==
    /\ k \in DOMAIN world.chain
    /\ Len(channel) < MaxQueued
    /\ channel' = Append(channel, k)
    /\ UNCHANGED <<cfg, world, clone_listeners, last_clone_output, loop, tasks,
                   cancelled, client, envVars>>

RogueNext ==
    \/ \E c \in Clients, k \in Keys : ClientRegister(c, k)
    \/ \E c \in Clients : ClientPush(c)
    \/ \E c \in Clients : ClientReceive(c)
    \/ \E k \in Keys : RoguePush(k)
    \/ LoopReceive
    \/ LoopJoined
    \/ \E i \in TaskIds : DoCloneOrUseCache(i)
    \/ \E i \in TaskIds : DoCloneBegin(i)
    \/ \E i \in TaskIds : FetchReturn(i)
    \/ \E i \in TaskIds : Classify(i)
    \/ \E i \in TaskIds : Notify(i)

RogueSpec == RogueInit /\ [][RogueNext]_vars

\* ------------------------------ requests after hydration ----------------
\* The worker of a validator that starts with accounts in its bank, and a
\* caller that keeps asking for such an account once the request loop runs.

HydratedScenarios ==
    {ScenarioHydrateSynthetic, ScenarioHydrateOwn, ScenarioHydrateFailing,
     ScenarioHydrateSkipped}

HydratedInit == \E sc \in HydratedScenarios : InitWorker(sc)

\* The token is never cancelled in these runs and the chain holds no program.
HydratedNext ==
    \/ \E c \in Clients, k \in Keys : ClientRegister(c, k)
    \/ \E c \in Clients : ClientPush(c)
    \/ \E c \in Clients : ClientReceive(c)
    \/ LoopReceive
    \/ LoopJoined
    \/ \E i \in TaskIds : DoCloneOrUseCache(i)
    \/ \E i \in TaskIds : DoCloneBegin(i)
    \/ \E i \in TaskIds : FetchCall(i)
    \/ \E i \in TaskIds : FetchReturn(i)
    \/ \E i \in TaskIds : Classify(i)
    \/ \E i \in TaskIds : Notify(i)
    \/ Hydrate
    \/ \E i \in TaskIds : HydrateLogged(i)
    \/ HydrateReturn
    \/ \E k \in Keys, s \in LaterSlots : SubscriptionConfirmed(k, s)
    \/ \E k \in Keys, s \in LaterSlots : AccountUpdated(k, s)
    \/ \E k \in Keys : BankRemove(k)

HydratedFairness ==
    /\ \A i \in TaskIds : WF_vars(TaskStep(i))
    /\ WF_vars(LoopReceive)
    /\ WF_vars(LoopJoined)
    /\ WF_vars(Hydrate)
    /\ \A i \in TaskIds : WF_vars(HydrateLogged(i))
    /\ WF_vars(HydrateReturn)
    /\ \A c \in Clients : WF_vars(ClientPush(c))

HydratedSpec == HydratedInit /\ [][HydratedNext]_vars /\ HydratedFairness

\* ------------------------------ classification alone -------------------
\* The classification of do_clone applied to every input: a run that has just
\* accepted a snapshot, for every configuration, chain state and stage.

StagePubkeys == {DefaultPubkey, ValidatorId, "owner_program"}

ClassifyStages ==
    {Running} \cup {Hydrating(v, o) : v \in StagePubkeys, o \in StagePubkeys}

ClassifyStates ==
    {FeePayerState, DataState, ProgramState(LoaderUpgradeable),
     ProgramState(LoaderLegacy), ProgramState(LoaderDeprecated)}
      \cup {Delegated(DelegationRecord(a, o, d)) :
               a \in StagePubkeys, o \in StagePubkeys, d \in ChainSlots}

ClassifyConfigs ==
    {Config(Permissions(f, u, d, p, TRUE), allowed, {}, payer) :
        f \in BOOLEAN, u \in BOOLEAN, d \in BOOLEAN, p \in BOOLEAN,
        allowed \in {None, Some({}), Some({"K1"})},
        payer \in {None, Some(InitLamports)}}

\* The run of do_clone for K1 at the end of its fetch loop.
ClassifyTask(stage, snapshot) ==
    [NewTask("K1") EXCEPT !.stage = stage, !.pc = "classify", !.fetch_count = 1,
                          !.snapshot = Some(snapshot),
                          !.calls = [monitor |-> 1,
                                     fetch |-> <<FetchOf("account", "K1",
                                                         Some(snapshot.at_slot))>>,
                                     dump |-> <<>>, derived |-> <<>>]]

ClassifyInit ==
    \E c \in ClassifyConfigs, stage \in ClassifyStages, st \in ClassifyStates,
       s \in ChainSlots :
        /\ cfg = IF stage = Running
                   THEN c
                   ELSE [c EXCEPT !.validator_identity = stage.validator_identity]
        /\ world = World({st}, {"K1"}, {}, {"AccountDumperError"}, FALSE)
        /\ clone_listeners = IF stage = Running THEN Put(<<>>, "K1", <<"c1">>)
                                                ELSE <<>>
        /\ last_clone_output = <<>>
        /\ channel = <<>>
        /\ loop = IF stage = Running THEN "join_all" ELSE "hydrating"
        /\ tasks = <<ClassifyTask(stage, Snapshot("K1", s, st))>>
        /\ cancelled = FALSE
        /\ client = [x \in Clients |->
                        [pc |-> IF x = "c1" /\ stage = Running THEN "await"
                                                               ELSE "idle",
                         pubkey |-> "K1", inbox |-> <<>>]]
        /\ last_known_update_slot = <<>>
        /\ first_subscribed_slot = Put(<<>>, "K1", s)
        /\ monitored = {"K1"}
        /\ bank = IF stage = Running THEN {} ELSE {"K1"}

ClassifyNext == \E i \in TaskIds : Classify(i)

ClassifySpec == ClassifyInit /\ [][ClassifyNext]_vars

\* ------------------------------ properties -----------------------------

Range(seq) == {seq[n] : n \in DOMAIN seq}

\* Task i takes its notification step: from "done" to "finished".
Notifies(i) ==
    /\ i \in DOMAIN tasks
    /\ tasks[i].pc = "done"
    /\ i \in DOMAIN tasks'
    /\ tasks'[i].pc = "finished"

\* The fetcher calls of run t for the key itself.
AccountFetches(t) == SelectSeq(t.calls.fetch, LAMBDA f : f.target = "account")

\* C1: under the callers' registration protocol, in every reachable state at
\* most one run of process_clone_request / do_clone_or_use_cache exists per key
\* among the unfinished futures of the request loop, so two refreshes of the
\* same key never interleave.
C1_SingleFlightPerKey ==
    \A i, j \in DOMAIN tasks :
        (i # j /\ tasks[i].pc # "finished" /\ tasks[j].pc # "finished")
            => tasks[i].pubkey # tasks[j].pubkey

\* C1 witness: a refresh of a key awaits the fetcher while a second caller
\* has joined the listener list of that key.
C1_Witness ==
    \E i \in DOMAIN tasks :
        /\ tasks[i].pc = "fetching"
        /\ tasks[i].pubkey \in DOMAIN clone_listeners
        /\ Len(clone_listeners[tasks[i].pubkey]) = 2

\* C2: the step that completes the processing of key K removes the entry of K
\* from clone_listeners and sends the result of that run to every sink of the
\* removed list, once each; a sink gets a message in no other way, so a sink
\* registered after the removal is not sent that result.
C2_DrainAndFanOut ==
    [][ /\ \A i \in TaskIds :
              (Notifies(i) /\ tasks[i].pubkey \in DOMAIN clone_listeners) =>
                 /\ tasks[i].pubkey \notin DOMAIN clone_listeners'
                 /\ \A c \in Range(clone_listeners[tasks[i].pubkey]) :
                       client'[c].inbox =
                          Append(client[c].inbox, Unwrap(tasks[i].result))
        /\ \A c \in Clients :
              (client'[c].inbox # client[c].inbox /\ client'[c].inbox # <<>>) =>
                 \E i \in TaskIds :
                    /\ Notifies(i)
                    /\ tasks[i].pubkey \in DOMAIN clone_listeners
                    /\ c \in Range(clone_listeners[tasks[i].pubkey])
                    /\ tasks[i].pubkey = client[c].pubkey
      ]_vars

\* C2 witness: two callers of the same key hold the same result, and the
\* entry of the key is gone.
C2_Witness ==
    /\ client["c1"].inbox # <<>>
    /\ client["c1"].inbox = client["c2"].inbox
    /\ client["c1"].pubkey = client["c2"].pubkey
    /\ client["c1"].pubkey \notin DOMAIN clone_listeners
    /\ client["c1"].inbox[1].ok
    /\ client["c1"].inbox[1].val.tag = "Cloned"

\* A caller has registered a sink and holds no message yet.
Waiting(c) == client[c].pc \in {"push", "await"} /\ client[c].inbox = <<>>

\* C3 (as claimed): every caller that registers a sink receives exactly one
\* message on it, in every execution of the worker.
C3_ExactlyOneAlways ==
    /\ [](\A c \in Clients : Len(client[c].inbox) <= 1)
    /\ \A c \in Clients : Waiting(c) ~> (Len(client[c].inbox) = 1)

\* C3 (amended): a sink never holds more than one message, and every caller
\* that registers a sink receives its message unless the request loop returns
\* on cancellation first.
C3_ExactlyOneUnlessCancelled ==
    /\ [](\A c \in Clients : Len(client[c].inbox) <= 1)
    /\ \A c \in Clients :
          Waiting(c) ~> (Len(client[c].inbox) = 1 \/ loop = "returned")

\* C3 witness: a caller holds exactly one message, an error, delivered by a
\* run that ended after the token was cancelled.
C3_Witness ==
    \E c \in Clients :
        /\ Len(client[c].inbox) = 1
        /\ ~client[c].inbox[1].ok
        /\ cancelled

\* Task i takes a step of its own.
Steps(i) == i \in DOMAIN tasks /\ i \in DOMAIN tasks' /\ tasks'[i] # tasks[i]

\* The positions of a run inside do_clone.
RefreshPositions ==
    {"do_clone", "fetch", "fetching", "classify", "program_data", "anchor_idl",
     "shank_idl"}

\* Task i leaves do_clone_and_update_cache with an output.
RefreshSucceeds(i) ==
    /\ Steps(i)
    /\ tasks[i].pc \in RefreshPositions
    /\ tasks'[i].pc = "done"
    /\ Unwrap(tasks'[i].result).ok

\* The callers whose sink gets a message in this step.
Served == {c \in Clients : client'[c].inbox # client[c].inbox
                           /\ client'[c].inbox # <<>>}

\* The most fetcher calls for the key that one run may make.
FetchBudget == IF cfg.permissions.allow_cloning_refresh THEN fetch_retries ELSE 1

\* Every unfinished run belongs to the open epoch of its key (the entry of the
\* key is in clone_listeners), and no key has two of them.
OneRunPerEpoch ==
    \A i \in DOMAIN tasks :
        (tasks[i].stage = Running /\ tasks[i].pc # "finished") =>
            /\ tasks[i].pubkey \in DOMAIN clone_listeners
            /\ \A j \in DOMAIN tasks :
                  (j # i /\ tasks[j].pc # "finished") =>
                      tasks[j].pubkey # tasks[i].pubkey

\* The callers of one key served by one step get the same message.
SameOutcome ==
    \A c1, c2 \in Served :
        client[c1].pubkey = client[c2].pubkey => client'[c1].inbox = client'[c2].inbox

\* C4 (as claimed): the requests of one refresh epoch observe the same
\* outcome, and the fetcher is invoked for the key at most once in the epoch.
C4_AtMostOneFetchPerEpoch ==
    /\ OneRunPerEpoch
    /\ \A i \in DOMAIN tasks : Len(AccountFetches(tasks[i])) <= 1

\* C4 (amended): the requests of one refresh epoch observe the same outcome,
\* and the epoch has one run of the fetch loop, which invokes the fetcher for
\* the key at most fetch_retries times (once when refresh is not allowed).
C4_OneFetchLoopPerEpoch ==
    /\ [](OneRunPerEpoch
          /\ \A i \in DOMAIN tasks : Len(AccountFetches(tasks[i])) <= FetchBudget)
    /\ [][SameOutcome]_vars

\* C4 witness: a run is at its last allowed fetch while two callers wait on
\* the list of its key.
C4_Witness ==
    \E i \in DOMAIN tasks :
        /\ tasks[i].pc = "fetching"
        /\ Len(AccountFetches(tasks[i])) = fetch_retries
        /\ tasks[i].pubkey \in DOMAIN clone_listeners
        /\ Len(clone_listeners[tasks[i].pubkey]) = 2

\* Task i writes a Cloned output into the cache.
WritesCloned(i) ==
    /\ RefreshSucceeds(i)
    /\ Unwrap(tasks'[i].result).val.tag = "Cloned"

\* Task i accepts the snapshot the fetcher returned.
Accepts(i) ==
    /\ Steps(i)
    /\ tasks[i].pc = "fetching"
    /\ tasks'[i].pc = "classify"

\* C5 (as claimed): whenever a Cloned output is written to the cache, its
\* snapshot's slot is at least last_known_update_slot of the key at the moment
\* of the write.
C5_WrittenSlotCoversLastUpdate ==
    [][\A i \in TaskIds :
          WritesCloned(i) =>
             last_clone_output'[tasks[i].pubkey].account_chain_snapshot.at_slot
                >= UnwrapOr(Get(last_known_update_slot', tasks[i].pubkey), 0)
      ]_vars

\* C5 (amended): with refresh allowed, the snapshot a run accepts has a slot at
\* least first_subscribed_slot of the key as read at that moment (which must be
\* known), and the Cloned output written to the cache carries that snapshot;
\* nothing relates its slot to last_known_update_slot at the write.
C5_WrittenSlotCoversFirstSubscription ==
    [][\A i \in TaskIds :
          /\ (Accepts(i) /\ cfg.permissions.allow_cloning_refresh) =>
                /\ tasks[i].pubkey \in DOMAIN first_subscribed_slot
                /\ Unwrap(tasks'[i].snapshot).at_slot
                      >= first_subscribed_slot[tasks[i].pubkey]
          /\ WritesCloned(i) =>
                /\ tasks[i].pubkey \in DOMAIN last_clone_output'
                /\ last_clone_output'[tasks[i].pubkey].account_chain_snapshot
                      = Unwrap(tasks[i].snapshot)
      ]_vars

\* C5 witness: a run has just written a Cloned output whose slot is at least
\* the first subscribed slot and below the last known update slot.
C5_Witness ==
    \E i \in DOMAIN tasks :
        LET k == tasks[i].pubkey
        IN  /\ tasks[i].pc = "done"
            /\ tasks[i].calls.fetch # <<>>
            /\ k \in DOMAIN last_clone_output
            /\ tasks[i].result = Some(Ok(last_clone_output[k]))
            /\ last_clone_output[k].tag = "Cloned"
            /\ k \in DOMAIN first_subscribed_slot
            /\ k \in DOMAIN last_known_update_slot
            /\ last_clone_output[k].account_chain_snapshot.at_slot
                  >= first_subscribed_slot[k]
            /\ last_clone_output[k].account_chain_snapshot.at_slot
                  < last_known_update_slot[k]

\* The slot up to which a cached output stands.
CachedSlot(output) ==
    IF output.tag = "Cloned" THEN output.account_chain_snapshot.at_slot
                             ELSE output.at_slot

\* Task i runs do_clone_or_use_cache from its entry.
Enters(i) == Steps(i) /\ tasks[i].pc = "start"

\* C6: with a permission bit set, a request for a key whose cached output
\* (Cloned or Unclonable) has a slot at least last_known_update_slot (0 when
\* unknown, equality included) returns exactly the cached output and calls
\* neither ensure_monitoring nor the fetcher nor the dumper, and writes nothing.
C6_CacheHitIsReadOnly ==
    [][\A i \in TaskIds :
          LET k == tasks[i].pubkey
          IN  ( /\ Enters(i)
                /\ can_clone
                /\ k \in DOMAIN last_clone_output
                /\ CachedSlot(last_clone_output[k])
                      >= UnwrapOr(Get(last_known_update_slot, k), 0) )
              => /\ tasks'[i].pc = "done"
                 /\ tasks'[i].result = Some(Ok(last_clone_output[k]))
                 /\ tasks'[i].calls = NoCalls
                 /\ last_clone_output' = last_clone_output
                 /\ monitored' = monitored
                 /\ bank' = bank
      ]_vars

\* C6 witness: a run returned the cached Cloned output without any call, the
\* cached slot being equal to the last known update slot.
C6_Witness ==
    \E i \in DOMAIN tasks :
        LET k == tasks[i].pubkey
        IN  /\ tasks[i].pc = "done"
            /\ tasks[i].calls = NoCalls
            /\ k \in DOMAIN last_clone_output
            /\ tasks[i].result = Some(Ok(last_clone_output[k]))
            /\ last_clone_output[k].tag = "Cloned"
            /\ k \in DOMAIN last_known_update_slot
            /\ CachedSlot(last_clone_output[k]) = last_known_update_slot[k]

PermanentReasons ==
    {"IsBlacklisted", "IsNotAnAllowedProgram", "AlreadyLocallyOverriden",
     "NoCloningAllowed"}

\* The message is an Unclonable outcome for the key with a permanent reason.
PermanentRefusal(message, pubkey) ==
    /\ message.ok
    /\ message.val.tag = "Unclonable"
    /\ message.val.pubkey = pubkey
    /\ message.val.reason \in PermanentReasons

\* C8: once a request for a key has produced an Unclonable outcome with a
\* permanent reason (a caller holds it), no later request for the key invokes
\* the fetcher: a run for the key that is under way has made no fetch.
C8_PermanentRefusalNeverFetches ==
    \A c \in Clients, i \in DOMAIN tasks :
        ( /\ client[c].inbox # <<>>
          /\ PermanentRefusal(client[c].inbox[1], tasks[i].pubkey)
          /\ tasks[i].pc # "finished" )
        => tasks[i].calls.fetch = <<>>

\* Task i classifies a Delegated snapshot that it is allowed to clone.
ClonesDelegated(i) ==
    /\ Steps(i)
    /\ tasks[i].pc = "classify"
    /\ tasks[i].stage = Running
    /\ Unwrap(tasks[i].snapshot).chain_state.kind = "Delegated"
    /\ cfg.permissions.allow_cloning_delegated_accounts

\* The cache holds a Cloned output for the key of task i whose snapshot is
\* Delegated with the delegation slot of the snapshot task i fetched.
CachedSameDelegation(i) ==
    LET k == tasks[i].pubkey
    IN  /\ k \in DOMAIN last_clone_output
        /\ last_clone_output[k].tag = "Cloned"
        /\ last_clone_output[k].account_chain_snapshot.chain_state.kind = "Delegated"
        /\ last_clone_output[k].account_chain_snapshot.chain_state
              .delegation_record.delegation_slot
             = Unwrap(tasks[i].snapshot).chain_state.delegation_record.delegation_slot

\* C9: when the cache holds a Cloned output of a Delegated snapshot with
\* delegation slot d and a refresh fetches a Delegated snapshot with the same d
\* (at any slot), the dumper is not called and the returned Cloned output has
\* the cached signature; a refresh that finds no such entry calls the dumper
\* exactly once (so of two successive refreshes only the first one dumps).
C9_DelegatedReuse ==
    [][\A i \in TaskIds :
          ClonesDelegated(i) =>
             LET k == tasks[i].pubkey
                 snapshot == Unwrap(tasks[i].snapshot)
                 dumps == tasks[i].calls.dump
                 dumps2 == tasks'[i].calls.dump
             IN  IF CachedSameDelegation(i)
                   THEN /\ dumps2 = dumps
                        /\ bank' = bank
                        /\ tasks'[i].result
                             = Some(Ok(Cloned(snapshot,
                                              last_clone_output[k].signature)))
                   ELSE /\ Len(dumps2) = Len(dumps) + 1
                        /\ dumps2[Len(dumps2)].fn = "dump_delegated_account"
                        /\ dumps2[Len(dumps2)].pubkey = k
      ]_vars

\* C9 witness: a caller holds the Cloned output of a first refresh, and a second
\* refresh of the same key has returned a Cloned output of a later snapshot of
\* the same delegation with the same signature, without calling the dumper.
C9_Witness ==
    \E i \in DOMAIN tasks, c \in Clients :
        /\ tasks[i].pc = "done"
        /\ tasks[i].calls.dump = <<>>
        /\ tasks[i].calls.fetch # <<>>
        /\ Unwrap(tasks[i].result).ok
        /\ client[c].inbox # <<>>
        /\ client[c].inbox[1].ok
        /\ LET first == client[c].inbox[1].val
               second == Unwrap(tasks[i].result).val
           IN  /\ first.tag = "Cloned"
               /\ second.tag = "Cloned"
               /\ first.account_chain_snapshot.pubkey = tasks[i].pubkey
               /\ first.account_chain_snapshot.chain_state.kind = "Delegated"
               /\ second.account_chain_snapshot.chain_state
                    = first.account_chain_snapshot.chain_state
               /\ second.account_chain_snapshot.at_slot
                    > first.account_chain_snapshot.at_slot
               /\ second.signature = first.signature

\* Task i ends a refresh in the delegated-reuse case.
Reuses(i) == ClonesDelegated(i) /\ CachedSameDelegation(i)

\* C10 (as claimed): in the delegated-reuse case the cache entry of the key is
\* not rewritten: after the refresh it holds the snapshot (same slot) and the
\* signature stored before.
C10_ReuseKeepsCacheEntry ==
    [][\A i \in TaskIds :
          Reuses(i) =>
             /\ tasks[i].pubkey \in DOMAIN last_clone_output'
             /\ last_clone_output'[tasks[i].pubkey]
                  = last_clone_output[tasks[i].pubkey]
      ]_vars

\* C10 (amended): in the delegated-reuse case the cache entry of the key is
\* rewritten with the newly fetched snapshot (its slot included) and keeps the
\* signature stored before.
C10_ReuseKeepsSignatureOnly ==
    [][\A i \in TaskIds :
          Reuses(i) =>
             /\ tasks[i].pubkey \in DOMAIN last_clone_output'
             /\ last_clone_output'[tasks[i].pubkey]
                  = Cloned(Unwrap(tasks[i].snapshot),
                           last_clone_output[tasks[i].pubkey].signature)
      ]_vars

\* C10 witness: after a reuse the cache holds a snapshot of a later slot than
\* the one a caller still holds from the first refresh, under one signature.
C10_Witness ==
    \E i \in DOMAIN tasks, c \in Clients :
        LET k == tasks[i].pubkey
        IN  /\ tasks[i].pc = "done"
            /\ tasks[i].calls.dump = <<>>
            /\ tasks[i].calls.fetch # <<>>
            /\ k \in DOMAIN last_clone_output
            /\ last_clone_output[k].tag = "Cloned"
            /\ last_clone_output[k].account_chain_snapshot = Unwrap(tasks[i].snapshot)
            /\ client[c].inbox # <<>>
            /\ client[c].inbox[1].ok
            /\ client[c].inbox[1].val.tag = "Cloned"
            /\ client[c].inbox[1].val.account_chain_snapshot.pubkey = k
            /\ client[c].inbox[1].val.signature = last_clone_output[k].signature
            /\ client[c].inbox[1].val.account_chain_snapshot.at_slot
                 < last_clone_output[k].account_chain_snapshot.at_slot

\* Task i leaves do_clone_and_update_cache with an error.
RefreshFails(i) ==
    /\ Steps(i)
    /\ tasks[i].pc \in RefreshPositions
    /\ tasks'[i].pc = "done"
    /\ ~Unwrap(tasks'[i].result).ok

\* The errors of a refresh.
RefreshErrors ==
    {"AccountUpdatesError", "AccountFetcherError", "FailedToFetchSatisfactorySlot",
     "ProgramDataDoesNotExist", "AccountDumperError"}

\* A request for the key misses the cache: the entry is older than the last
\* known update, or there is none and the bank does not hold the key either.
MissesCache(k) ==
    IF k \in DOMAIN last_clone_output
      THEN CachedSlot(last_clone_output[k])
              < UnwrapOr(Get(last_known_update_slot, k), 0)
      ELSE k \notin bank

\* C11: a refresh that fails leaves the cache as it was (the entry of a key
\* changes only when a refresh of that key succeeds), the error is the message
\* the listeners of the key receive, and a later request that misses the cache
\* runs a refresh from its start.
C11_RefreshErrorsAreNotCached ==
    [][/\ \A k \in Keys :
             Get(last_clone_output', k) # Get(last_clone_output, k) =>
                \E i \in TaskIds : RefreshSucceeds(i) /\ tasks[i].pubkey = k
       /\ \A i \in TaskIds :
             /\ RefreshFails(i) =>
                   /\ last_clone_output' = last_clone_output
                   /\ Unwrap(tasks'[i].result).err \in RefreshErrors
             /\ ( /\ Notifies(i)
                  /\ ~Unwrap(tasks[i].result).ok )
                => \A n \in DOMAIN clone_listeners[tasks[i].pubkey] :
                      LET c == clone_listeners[tasks[i].pubkey][n]
                      IN  client'[c].inbox[Len(client'[c].inbox)]
                             = Unwrap(tasks[i].result)
             /\ ( /\ Enters(i)
                  /\ tasks[i].stage = Running
                  /\ \/ cfg.permissions.allow_cloning_feepayer_accounts
                     \/ cfg.permissions.allow_cloning_undelegated_accounts
                     \/ cfg.permissions.allow_cloning_delegated_accounts
                     \/ cfg.permissions.allow_cloning_program_accounts
                  /\ MissesCache(tasks[i].pubkey) )
                => /\ tasks'[i].pc = "do_clone"
                   /\ tasks'[i].fetch_count = 0
                   /\ tasks'[i].calls = NoCalls
      ]_vars

\* C11 witness: a caller holds the dumper's error of a refresh that found a stale
\* entry, the entry is still in the cache and still stale, and the run of a later
\* request for the key is fetching again.
C11_Witness ==
    \E i \in DOMAIN tasks, c \in Clients :
        LET k == tasks[i].pubkey
        IN  /\ client[c].pubkey = k
            /\ client[c].inbox = <<Err("AccountDumperError")>>
            /\ tasks[i].pc = "fetching"
            /\ k \in DOMAIN last_clone_output
            /\ MissesCache(k)

\* No permission bit is set.
NoPermission ==
    /\ ~cfg.permissions.allow_cloning_feepayer_accounts
    /\ ~cfg.permissions.allow_cloning_undelegated_accounts
    /\ ~cfg.permissions.allow_cloning_delegated_accounts
    /\ ~cfg.permissions.allow_cloning_program_accounts

\* C12: when the four permission bits are false, a request for any key returns
\* Unclonable(NoCloningAllowed, u64::MAX) at once; no run ever calls
\* ensure_account_monitoring, the fetcher or the dumper, and the cache, the
\* monitored keys and the bank are not changed by the worker.
C12_DisabledCloningDoesNothing ==
    /\ [](NoPermission =>
            /\ last_clone_output = <<>>
            /\ monitored = {}
            /\ \A i \in DOMAIN tasks :
                  /\ tasks[i].calls = NoCalls
                  /\ IsSome(tasks[i].result) =>
                        tasks[i].result =
                           Some(Ok(Unclonable(tasks[i].pubkey, "NoCloningAllowed",
                                              U64_MAX))))
    /\ [][\A i \in TaskIds :
             (Enters(i) /\ NoPermission) =>
                /\ tasks'[i].pc = "done"
                /\ IsSome(tasks'[i].result)
                /\ bank' = bank
         ]_vars

\* C12 witness: with no permission bit set, both callers hold the
\* NoCloningAllowed refusal of their keys.
C12_Witness ==
    /\ NoPermission
    /\ \A c \in Clients :
          client[c].inbox =
             <<Ok(Unclonable(client[c].pubkey, "NoCloningAllowed", U64_MAX))>>
    /\ client["c1"].pubkey # client["c2"].pubkey

\* C13: a request for a key that the cache does not hold and the bank does
\* returns Unclonable(AlreadyLocallyOverriden, u64::MAX) without a fetch or a
\* dump, and that outcome is in the cache afterwards.
C13_LocallyOverriddenIsCached ==
    [][\A i \in TaskIds :
          LET k == tasks[i].pubkey
              refusal == Unclonable(k, "AlreadyLocallyOverriden", U64_MAX)
          IN  ( /\ Enters(i)
                /\ ~NoPermission
                /\ k \notin DOMAIN last_clone_output
                /\ k \in bank )
              => /\ tasks'[i].pc = "done"
                 /\ tasks'[i].result = Some(Ok(refusal))
                 /\ tasks'[i].calls = NoCalls
                 /\ k \in DOMAIN last_clone_output'
                 /\ last_clone_output'[k] = refusal
      ]_vars

\* The refusal of a key with a reason that holds for ever.
Refusal(k, reason) == Ok(Unclonable(k, reason, U64_MAX))

\* C14 (as claimed): a request for a blacklisted key always yields
\* Unclonable(IsBlacklisted, u64::MAX), whatever the permission bits are and
\* whether or not the bank holds the key, and causes no fetch, subscription or
\* dump.
C14_BlacklistedAlwaysIsBlacklisted ==
    \A i \in DOMAIN tasks :
        tasks[i].pubkey \in cfg.blacklisted_accounts =>
            /\ tasks[i].calls = NoCalls
            /\ IsSome(tasks[i].result) =>
                  tasks[i].result = Some(Refusal(tasks[i].pubkey, "IsBlacklisted"))

\* C14 (amended): a request for a blacklisted key never causes a fetch, a
\* subscription or a dump.  It yields NoCloningAllowed when no permission bit is
\* set; otherwise AlreadyLocallyOverriden when the cache has no entry for the key
\* and the bank holds it; otherwise IsBlacklisted (from do_clone, which writes it
\* to the cache, or from the cache); each with u64::MAX.
C14_BlacklistedNeverCloned ==
    /\ [](/\ \A i \in DOMAIN tasks :
                tasks[i].pubkey \in cfg.blacklisted_accounts =>
                   tasks[i].calls = NoCalls
          /\ \A k \in cfg.blacklisted_accounts :
                /\ k \notin monitored
                /\ k \in DOMAIN last_clone_output =>
                      Ok(last_clone_output[k]) = Refusal(k, "IsBlacklisted"))
    /\ [][\A i \in TaskIds :
             LET k == tasks[i].pubkey
             IN  /\ (Enters(i) /\ k \in cfg.blacklisted_accounts) =>
                       IF NoPermission
                         THEN tasks'[i].result = Some(Refusal(k, "NoCloningAllowed"))
                       ELSE IF k \in DOMAIN last_clone_output
                         THEN tasks'[i].result = Some(Refusal(k, "IsBlacklisted"))
                       ELSE IF k \in bank
                         THEN tasks'[i].result =
                                 Some(Refusal(k, "AlreadyLocallyOverriden"))
                       ELSE tasks'[i].pc = "do_clone"
                 /\ ( /\ Steps(i)
                      /\ tasks[i].pc = "do_clone"
                      /\ k \in cfg.blacklisted_accounts )
                    => /\ tasks'[i].pc = "done"
                       /\ tasks'[i].result = Some(Refusal(k, "IsBlacklisted"))
                       /\ Get(last_clone_output', k)
                             = Some(Unclonable(k, "IsBlacklisted", U64_MAX))
         ]_vars

\* C14 witness: one caller holds AlreadyLocallyOverriden for a blacklisted key
\* that the bank held, the other holds IsBlacklisted for the same key, now in
\* the cache.
C14_Witness ==
    \E c1, c2 \in Clients :
        LET k == client[c1].pubkey
        IN  /\ k \in cfg.blacklisted_accounts
            /\ client[c2].pubkey = k
            /\ client[c1].inbox = <<Refusal(k, "AlreadyLocallyOverriden")>>
            /\ client[c2].inbox = <<Refusal(k, "IsBlacklisted")>>
            /\ k \in DOMAIN last_clone_output

\* The fetcher answers task i, which refreshes.
FetchAnswered(i) ==
    /\ Steps(i)
    /\ tasks[i].pc = "fetching"
    /\ cfg.permissions.allow_cloning_refresh

\* C15: with refresh allowed, a snapshot that do_clone goes on to classify has
\* at_slot >= first_subscribed_slot of the key as read when the fetch returned
\* (which is then known); a reply with a smaller slot is never accepted; and the
\* slot of a Cloned or snapshot-scoped Unclonable entry written by a request is
\* the slot of the accepted snapshot.
C15_OnlySubscribedSnapshotsAreClassified ==
    [][\A i \in TaskIds :
          LET k == tasks[i].pubkey
          IN  /\ FetchAnswered(i) =>
                   ( tasks'[i].pc = "classify"
                     <=> /\ IsSome(tasks'[i].snapshot)
                         /\ k \in DOMAIN first_subscribed_slot
                         /\ Unwrap(tasks'[i].snapshot).at_slot
                               >= first_subscribed_slot[k] )
              /\ ( /\ Steps(i)
                   /\ tasks[i].pc # "fetching" )
                 => tasks'[i].snapshot = tasks[i].snapshot
              /\ ( /\ RefreshSucceeds(i)
                   /\ IsSome(tasks[i].snapshot)
                   /\ CachedSlot(Unwrap(tasks'[i].result).val) # U64_MAX )
                 => /\ k \in DOMAIN last_clone_output'
                    /\ CachedSlot(last_clone_output'[k])
                          = Unwrap(tasks[i].snapshot).at_slot
      ]_vars

\* C15 witness: after a reply that was not accepted, a run classifies a
\* snapshot taken exactly at the first subscribed slot of its key.
C15_Witness ==
    \E i \in DOMAIN tasks :
        /\ tasks[i].pc = "classify"
        /\ tasks[i].fetch_count >= 2
        /\ tasks[i].pubkey \in DOMAIN first_subscribed_slot
        /\ Unwrap(tasks[i].snapshot).at_slot
              = first_subscribed_slot[tasks[i].pubkey]

\* What the fetch loop does with a reply at attempt number fetch_count, as
\* claimed: accept a snapshot not older than the known first subscribed slot,
\* else retry while attempts remain, else fail with FailedToFetchSatisfactorySlot
\* after a stale snapshot and with the fetch error after an error.
AfterReply(t, reply) ==
    IF /\ reply.ok
       /\ t.pubkey \in DOMAIN first_subscribed_slot
       /\ reply.val.at_slot >= first_subscribed_slot[t.pubkey]
      THEN [t EXCEPT !.pc = "classify", !.snapshot = Some(reply.val)]
    ELSE IF t.fetch_count < 5
      THEN [t EXCEPT !.pc = "fetch"]
    ELSE IF reply.ok
      THEN [t EXCEPT !.pc = "done",
                     !.result = Some(Err("FailedToFetchSatisfactorySlot"))]
    ELSE [t EXCEPT !.pc = "done", !.result = Some(reply)]

\* C16: with refresh allowed, a run calls the fetcher for its key at most 5
\* times, once per attempt; a satisfactory snapshot at attempt n ends the loop
\* after exactly n calls; an unsatisfactory 5th attempt ends the run with
\* FailedToFetchSatisfactorySlot after a stale snapshot and with the fetch error
\* after an error; there is no 6th call.
C16_BoundedRetry ==
    /\ [](cfg.permissions.allow_cloning_refresh =>
            \A i \in DOMAIN tasks :
               /\ tasks[i].fetch_count <= 5
               /\ Len(AccountFetches(tasks[i])) = tasks[i].fetch_count)
    /\ [][\A i \in TaskIds :
             /\ FetchAnswered(i) =>
                   \E reply \in FetcherReplies(tasks[i].pubkey) :
                       tasks'[i] = AfterReply(tasks[i], reply)
             /\ ( /\ Steps(i)
                  /\ cfg.permissions.allow_cloning_refresh
                  /\ tasks'[i].fetch_count # tasks[i].fetch_count )
                => /\ tasks[i].pc = "fetch"
                   /\ tasks'[i].fetch_count = tasks[i].fetch_count + 1
         ]_vars

\* C16 witness: a run got a satisfactory snapshot at its 5th attempt, after 5
\* calls of the fetcher.
C16_Witness ==
    \E i \in DOMAIN tasks :
        /\ cfg.permissions.allow_cloning_refresh
        /\ tasks[i].pc = "classify"
        /\ tasks[i].fetch_count = 5
        /\ Len(AccountFetches(tasks[i])) = 5

\* Task i classifies the snapshot it accepted.
Classifies(i) == Steps(i) /\ tasks[i].pc = "classify"

\* The run of task i ends in this step with a refusal that is written to the
\* cache, and calls no dumper.
Refused(i, reason, slot) ==
    LET refusal == Unclonable(tasks[i].pubkey, reason, slot)
    IN  /\ tasks'[i].pc = "done"
        /\ tasks'[i].result = Some(Ok(refusal))
        /\ tasks'[i].calls = tasks[i].calls
        /\ Get(last_clone_output', tasks[i].pubkey) = Some(refusal)

\* The run of task i ends in this step after the one dumper call `call`: with
\* Cloned{the snapshot, the call's signature}, written to the cache, or with the
\* dumper's error.
Dumped(i, call) ==
    /\ tasks'[i].pc = "done"
    /\ tasks'[i].calls.dump = Append(tasks[i].calls.dump, call)
    /\ tasks'[i].calls.fetch = tasks[i].calls.fetch
    /\ LET result == Unwrap(tasks'[i].result)
       IN  IF result.ok
             THEN /\ result.val.tag = "Cloned"
                  /\ result.val.account_chain_snapshot = Unwrap(tasks[i].snapshot)
                  /\ Get(last_clone_output', tasks[i].pubkey) = Some(result.val)
             ELSE /\ result = Err("AccountDumperError")
                  /\ last_clone_output' = last_clone_output

\* C17: the decision of do_clone for a fetched snapshot is the one of the
\* table, for every configuration.  FeePayer: refused with
\* DoesNotAllowFeePayerAccount at the snapshot's slot if fee-payer cloning is
\* off, else dump_feepayer_account(K, payer_init_lamports or else the chain's
\* lamports, owner).  Executable: refused with IsNotAnAllowedProgram for ever
\* if an allowed set is configured without K, else with
\* DoesNotAllowProgramAccount at the slot if program cloning is off, else the
\* program dump of its loader.  Other undelegated: refused with
\* DoesNotAllowUndelegatedAccount at the slot if off, else
\* dump_undelegated_account.  Delegated: refused with
\* DoesNotAllowDelegatedAccount at the slot if off, else a Cloned outcome of
\* the snapshot or the dumper's error.
C17_ClassifierTable ==
    [][\A i \in TaskIds :
          Classifies(i) =>
             LET k == tasks[i].pubkey
                 snapshot == Unwrap(tasks[i].snapshot)
                 state == snapshot.chain_state
                 perms == cfg.permissions
             IN  CASE state.kind = "FeePayer" ->
                        IF ~perms.allow_cloning_feepayer_accounts
                          THEN Refused(i, "DoesNotAllowFeePayerAccount",
                                       snapshot.at_slot)
                          ELSE Dumped(i,
                                 DumpOf("dump_feepayer_account", k,
                                        Some(IF cfg.payer_init_lamports = {}
                                               THEN state.lamports
                                               ELSE Unwrap(cfg.payer_init_lamports)),
                                        Some(state.owner), None))
                   [] state.kind = "Undelegated" /\ state.executable ->
                        IF /\ cfg.allowed_program_ids # {}
                           /\ k \notin Unwrap(cfg.allowed_program_ids)
                          THEN Refused(i, "IsNotAnAllowedProgram", U64_MAX)
                        ELSE IF ~perms.allow_cloning_program_accounts
                          THEN Refused(i, "DoesNotAllowProgramAccount",
                                       snapshot.at_slot)
                        ELSE IF state.owner = LoaderDeprecated
                          THEN /\ tasks'[i].result =
                                     Some(Err("ProgramDataDoesNotExist"))
                               /\ tasks'[i].calls = tasks[i].calls
                               /\ last_clone_output' = last_clone_output
                        ELSE IF state.owner = LoaderLegacy
                          THEN Dumped(i,
                                 DumpOf("dump_program_account_with_old_bpf", k,
                                        None, None, None))
                        ELSE /\ tasks'[i].pc = "program_data"
                             /\ tasks'[i].result = None
                             /\ tasks'[i].calls.dump = tasks[i].calls.dump
                   [] state.kind = "Undelegated" /\ ~state.executable ->
                        IF ~perms.allow_cloning_undelegated_accounts
                          THEN Refused(i, "DoesNotAllowUndelegatedAccount",
                                       snapshot.at_slot)
                          ELSE Dumped(i,
                                 DumpOf("dump_undelegated_account", k, None, None,
                                        None))
                   [] state.kind = "Delegated" ->
                        IF ~perms.allow_cloning_delegated_accounts
                          THEN Refused(i, "DoesNotAllowDelegatedAccount",
                                       snapshot.at_slot)
                          ELSE /\ tasks'[i].pc = "done"
                               /\ LET result == Unwrap(tasks'[i].result)
                                  IN  IF result.ok
                                        THEN /\ result.val.tag = "Cloned"
                                             /\ result.val.account_chain_snapshot
                                                   = snapshot
                                        ELSE result = Err("AccountDumperError")
      ]_vars

\* C17 witness: with payer_init_lamports configured and fee-payer cloning on, a
\* FeePayer snapshot was dumped with the configured lamports, which are not
\* the chain's, and the run returned Cloned.
C17_Witness ==
    \E i \in DOMAIN tasks :
        LET state == Unwrap(tasks[i].snapshot).chain_state
        IN  /\ tasks[i].pc = "done"
            /\ IsSome(tasks[i].snapshot)
            /\ state.kind = "FeePayer"
            /\ IsSome(cfg.payer_init_lamports)
            /\ state.lamports # Unwrap(cfg.payer_init_lamports)
            /\ Len(tasks[i].calls.dump) = 1
            /\ tasks[i].calls.dump[1].fn = "dump_feepayer_account"
            /\ tasks[i].calls.dump[1].lamports = cfg.payer_init_lamports
            /\ Unwrap(tasks[i].result).ok
            /\ Unwrap(tasks[i].result).val.tag = "Cloned"

\* The stage predicate as claimed.
StagePredicate(stage, record) ==
    \/ stage = Running
    \/ /\ stage # Running
       /\ record.authority # DefaultPubkey
       /\ record.authority # stage.validator_identity
    \/ /\ stage # Running
       /\ record.authority = DefaultPubkey
       /\ stage.account_owner # record.owner

\* C18: should_clone_delegated_account is true for stage Running; for stage
\* Hydrating it is (authority # validator_identity) when the record's authority
\* is set, and (observed local owner # record owner) when it is not, for all
\* values of the four keys: an allowed Delegated snapshot of a key that was not
\* cloned before is dumped exactly when the predicate is true.
C18_StagePredicate ==
    [][\A i \in TaskIds :
          ( /\ Classifies(i)
            /\ Unwrap(tasks[i].snapshot).chain_state.kind = "Delegated"
            /\ cfg.permissions.allow_cloning_delegated_accounts
            /\ tasks[i].pubkey \notin DOMAIN last_clone_output )
          => ( tasks'[i].calls.dump # tasks[i].calls.dump
               <=> StagePredicate(tasks[i].stage,
                     Unwrap(tasks[i].snapshot).chain_state.delegation_record) )
      ]_vars

\* C18 witness: during hydration a Delegated snapshot whose record names another
\* authority than this validator was dumped, although the bank's owner of the
\* account is the record's owner.
C18_Witness ==
    \E i \in DOMAIN tasks :
        /\ tasks[i].pc = "done"
        /\ tasks[i].stage # Running
        /\ IsSome(tasks[i].snapshot)
        /\ Unwrap(tasks[i].snapshot).chain_state.kind = "Delegated"
        /\ LET record == Unwrap(tasks[i].snapshot).chain_state.delegation_record
           IN  /\ record.authority # DefaultPubkey
               /\ record.authority # tasks[i].stage.validator_identity
               /\ record.owner = tasks[i].stage.account_owner
        /\ Len(tasks[i].calls.dump) = 1

\* C19: when delegated cloning is allowed and the stage predicate is false for
\* the Delegated snapshot a run fetched (hydration of an account delegated to
\* this validator, or delegated without authority while the bank's owner is the
\* record's owner), the run ends with Cloned{that snapshot, a signature nothing
\* carried before}, calls no dumper, and that output is written to the cache.
C19_SyntheticClonedIsCached ==
    [][\A i \in TaskIds :
          ( /\ Classifies(i)
            /\ Unwrap(tasks[i].snapshot).chain_state.kind = "Delegated"
            /\ cfg.permissions.allow_cloning_delegated_accounts
            /\ ~StagePredicate(tasks[i].stage,
                  Unwrap(tasks[i].snapshot).chain_state.delegation_record) )
          => /\ tasks'[i].pc = "done"
             /\ tasks'[i].calls = tasks[i].calls
             /\ \E output \in tasks'[i].result :
                   /\ output.ok
                   /\ output.val.tag = "Cloned"
                   /\ output.val.account_chain_snapshot = Unwrap(tasks[i].snapshot)
                   /\ output.val.signature \notin UsedSignatures
                   /\ Get(last_clone_output', tasks[i].pubkey) = Some(output.val)
      ]_vars

\* C19 witness: hydration ended the run of an account that is delegated without
\* authority and owned in the bank by the record's owner: the cache holds
\* Cloned for it and no dumper was called.
C19_Witness ==
    \E i \in DOMAIN tasks :
        /\ tasks[i].stage # Running
        /\ tasks[i].pc = "done"
        /\ tasks[i].calls.dump = <<>>
        /\ IsSome(tasks[i].snapshot)
        /\ Unwrap(tasks[i].snapshot).chain_state.kind = "Delegated"
        /\ LET record == Unwrap(tasks[i].snapshot).chain_state.delegation_record
           IN  /\ record.authority = DefaultPubkey
               /\ record.owner = tasks[i].stage.account_owner
        /\ tasks[i].pubkey \in DOMAIN last_clone_output
        /\ tasks[i].result = {Ok(last_clone_output[tasks[i].pubkey])}
        /\ last_clone_output[tasks[i].pubkey].tag = "Cloned"

\* The accounts hydration has to leave alone, as claimed: blacklisted, with more
\* lamports than u64::MAX / 2, or not executable and owned by the upgradable
\* loader.
LeftAlone(k) ==
    \/ k \in cfg.blacklisted_accounts
    \/ world.accounts[k].lamports > U64_MAX_HALF
    \/ ~world.accounts[k].executable /\ world.accounts[k].owner = LoaderUpgradeable

\* hydrate is running or about to run.
InHydration == loop \in {"created", "hydrating"}

\* C20: hydration starts no clone for a local account that is blacklisted, has
\* more than u64::MAX / 2 lamports, or is not executable and owned by the
\* upgradable loader: the account gets no run (hence no fetch and no dump), is
\* not monitored and gets no cache entry; an account with exactly u64::MAX / 2
\* lamports that passes the other two filters gets a run; and with no
\* permission bit set hydration starts no run and writes nothing.
C20_HydrationFilters ==
    [][/\ \A k \in DOMAIN world.accounts :
             (InHydration /\ LeftAlone(k))
             => /\ \A i \in DOMAIN tasks' : tasks'[i].pubkey # k
                /\ k \notin monitored'
                /\ k \notin DOMAIN last_clone_output'
       /\ \A k \in bank :
             ( /\ loop = "created" /\ loop' # "created"
               /\ ~NoPermission
               /\ ~LeftAlone(k)
               /\ world.accounts[k].lamports = U64_MAX_HALF )
             => \E i \in DOMAIN tasks' :
                   /\ tasks'[i].pubkey = k
                   /\ tasks'[i].stage =
                        Hydrating(cfg.validator_identity, world.accounts[k].owner)
       /\ (InHydration /\ NoPermission)
             => /\ tasks' = <<>>
                /\ loop' \in {"created", "select"}
                /\ monitored' = monitored
                /\ last_clone_output' = last_clone_output
      ]_vars

\* C20 witness: hydration cloned the account with exactly u64::MAX / 2 lamports
\* through the dumper, and has no run for the blacklisted account next to it.
C20_Witness ==
    /\ loop = "hydrating"
    /\ "K2" \in cfg.blacklisted_accounts
    /\ "K2" \in DOMAIN world.accounts
    /\ \A i \in DOMAIN tasks : tasks[i].pubkey # "K2"
    /\ \E i \in DOMAIN tasks :
          /\ world.accounts[tasks[i].pubkey].lamports = U64_MAX_HALF
          /\ tasks[i].pc = "logged"
          /\ Len(tasks[i].calls.dump) = 1
          /\ tasks[i].pubkey \in DOMAIN last_clone_output

\* A run of the hydration pass has failed.
HydrationFailed(i) ==
    /\ i \in DOMAIN tasks
    /\ tasks[i].stage # Running
    /\ tasks[i].pc \in {"done", "logged"}
    /\ \E result \in tasks[i].result : ~result.ok

\* The pass holds a run for key k that waits behind a run that failed.
WaitsBehindFailure(k) ==
    /\ loop = "hydrating"
    /\ \E i, j \in DOMAIN tasks :
          /\ j < i
          /\ HydrationFailed(j)
          /\ tasks[i].pubkey = k
          /\ tasks[i].pc = "queued"

\* do_clone runs for key k with the stage hydrate gives it.
HydrationRuns(k) ==
    \E i \in DOMAIN tasks :
        /\ k \in DOMAIN world.accounts
        /\ tasks[i].pubkey = k
        /\ tasks[i].pc = "do_clone"
        /\ tasks[i].stage = Hydrating(cfg.validator_identity, world.accounts[k].owner)

\* C21: hydration errors do not abort the pass: hydrate holds a run for every
\* account that passes its filters, a run that waits behind a failed one is still
\* started with stage Hydrating{validator_identity, the account's local owner},
\* a run that fails leaves the cache as it was, and hydrate returns.
C21_HydrationErrorsDoNotAbort ==
    /\ [][/\ (loop = "created" /\ loop' = "hydrating")
              => \A k \in bank :
                    ~LeftAlone(k) => \E i \in DOMAIN tasks' : tasks'[i].pubkey = k
          /\ \A i \in TaskIds :
                (loop = "hydrating" /\ Steps(i) /\ HydrationFailed(i)')
                => last_clone_output' = last_clone_output
      ]_vars
    /\ \A k \in Keys : WaitsBehindFailure(k) ~> HydrationRuns(k)
    /\ (loop = "hydrating") ~> (loop = "select")

\* C21 witness: the pass is over its two accounts; the run of the first failed,
\* the run of the second wrote the cache, which has nothing for the first.
C21_Witness ==
    /\ loop = "hydrating"
    /\ Len(tasks) = 2
    /\ HydrationFailed(1)
    /\ tasks[2].pc = "logged"
    /\ Unwrap(tasks[2].result).ok
    /\ tasks[2].pubkey \in DOMAIN last_clone_output
    /\ tasks[1].pubkey \notin DOMAIN last_clone_output

\* The request loop returns in this step.
LoopReturns == loop # "returned" /\ loop' = "returned"

\* C22: when the token is cancelled while a batch is in flight, every run of the
\* batch still runs to its end, cache write and notification of its listeners
\* included, before start_clone_request_processing returns: the loop never
\* returns over an unfinished run.
C22_CancellationAwaitsTheBatch ==
    /\ [][/\ LoopReturns => \A i \in DOMAIN tasks : tasks[i].pc = "finished"
          /\ \A i \in TaskIds :
                LET k == tasks[i].pubkey
                IN  ( /\ cancelled
                      /\ Notifies(i)
                      /\ k \in DOMAIN clone_listeners )
                    => /\ k \notin DOMAIN clone_listeners'
                       /\ \A c \in Range(clone_listeners[k]) :
                             client'[c].inbox = <<Unwrap(tasks[i].result)>>
      ]_vars
    /\ \A i \in TaskIds :
          (cancelled /\ loop = "join_all" /\ i \in DOMAIN tasks)
          ~> (loop = "join_all" /\ i \in DOMAIN tasks /\ tasks[i].pc = "finished")

\* C22 witness: the token is cancelled, the loop still awaits its batch, and a
\* run of the batch has written the cache and is about to notify a caller.
C22_Witness ==
    /\ cancelled
    /\ loop = "join_all"
    /\ \E i \in DOMAIN tasks :
          /\ tasks[i].pc = "done"
          /\ tasks[i].calls.dump # <<>>
          /\ Unwrap(tasks[i].result).ok
          /\ Get(last_clone_output, tasks[i].pubkey) = Some(Unwrap(tasks[i].result).val)
          /\ tasks[i].pubkey \in DOMAIN clone_listeners

\* C23 (as claimed): a key pushed to the request channel after the token was
\* cancelled is never processed: from then on no run is started for it and the
\* caller that pushed it is never sent an outcome.
C23_LateKeysAreDropped ==
    \A c \in Clients :
        []( (cancelled /\ client[c].pc = "push")
            => [](/\ client[c].inbox = <<>>
                  /\ \A i \in DOMAIN tasks :
                        tasks[i].pubkey = client[c].pubkey
                        => tasks[i].pc = "finished") )

\* C24: once the token is cancelled, start_clone_request_processing eventually
\* returns, also when callers keep pushing keys; and it never returns before the
\* token is cancelled.
C24_ReturnsOnCancellationOnly ==
    /\ [](loop = "returned" => cancelled)
    /\ cancelled ~> (loop = "returned")

\* C24 witness: the loop has returned after cancellation while a key pushed by a
\* caller is still queued.
C24_Witness ==
    /\ loop = "returned"
    /\ cancelled
    /\ channel # <<>>

\* Key k is queued in the request channel, or about to be pushed by the caller
\* that created its entry, or being processed by the loop.
InProgressOrImminent(k) ==
    \/ k \in Range(channel)
    \/ \E c \in Clients : client[c].pc = "push" /\ client[c].pubkey = k
    \/ \E i \in DOMAIN tasks :
          /\ tasks[i].pubkey = k
          /\ tasks[i].stage = Running
          /\ tasks[i].pc # "finished"

\* C25: under the callers' protocol, in every reachable state a key with a
\* non-empty listener list is queued in the request channel (or about to be
\* pushed by its first inserter) or being processed by the loop; hence every run
\* that completes finds the entry of its key in clone_listeners.
C25_ListenersImplyProgress ==
    /\ [](\A k \in DOMAIN clone_listeners :
             clone_listeners[k] # <<>> /\ InProgressOrImminent(k))
    /\ [][\A i \in TaskIds :
             Notifies(i) => tasks[i].pubkey \in DOMAIN clone_listeners]_vars

\* C25 witness: a run has completed and is about to notify the two callers that
\* wait in the entry of its key, while nothing is queued.
C25_Witness ==
    \E i \in DOMAIN tasks :
        /\ tasks[i].pc = "done"
        /\ tasks[i].stage = Running
        /\ channel = <<>>
        /\ tasks[i].pubkey \in DOMAIN clone_listeners
        /\ Len(clone_listeners[tasks[i].pubkey]) = 2

\* C26: when clone_listeners has no entry for the key at the end of its
\* processing (a key pushed without a registered sink), the outcome is sent to
\* nobody and clone_listeners is left as it is, while the cache write of a
\* successful refresh of that run has been made all the same.
C26_MissingEntryDropsOutcomeOnly ==
    [][\A i \in TaskIds :
          LET k == tasks[i].pubkey
          IN  /\ (Notifies(i) /\ k \notin DOMAIN clone_listeners)
                 => /\ client' = client
                    /\ clone_listeners' = clone_listeners
                    /\ last_clone_output' = last_clone_output
              /\ (RefreshSucceeds(i) /\ k \notin DOMAIN clone_listeners)
                 => Get(last_clone_output', k)
                      = Some(Unwrap(tasks'[i].result).val)
      ]_vars

\* C26 witness: the batch held the key twice; both runs dumped the account and
\* are finished, the first one consumed the entry, the second one found none,
\* and the cache holds the output of the run that ended last.
C26_Witness ==
    /\ Len(tasks) = 2
    /\ tasks[1].pubkey = tasks[2].pubkey
    /\ tasks[1].pubkey \notin DOMAIN clone_listeners
    /\ \A i \in {1, 2} :
          /\ tasks[i].pc = "finished"
          /\ Unwrap(tasks[i].result).ok
          /\ tasks[i].calls.dump # <<>>
    /\ \E i \in {1, 2} :
          Get(last_clone_output, tasks[i].pubkey) = Some(Unwrap(tasks[i].result).val)

\* C27: when allow_cloning_refresh is false, a refresh of a key makes exactly
\* one fetch of the key, with min_context_slot = None, and never retries: a
\* fetch error ends the refresh at once with that error, a snapshot is accepted
\* whatever its slot; and ensure_account_monitoring is never called.
C27_NoRefreshFetchesOnce ==
    [][~cfg.permissions.allow_cloning_refresh
       => /\ monitored' = monitored
          /\ \A i \in TaskIds :
                LET k == tasks[i].pubkey
                    once == <<FetchOf("account", k, None)>>
                IN  Steps(i)
                    => /\ tasks'[i].calls.monitor = 0
                       /\ (tasks[i].pc = "do_clone" /\ k \notin cfg.blacklisted_accounts)
                          => /\ tasks'[i].pc = "fetching"
                             /\ AccountFetches(tasks'[i]) = once
                       /\ tasks[i].pc = "fetching"
                          => /\ AccountFetches(tasks'[i]) = once
                             /\ \/ /\ tasks'[i].pc = "classify"
                                   /\ IsSome(tasks'[i].snapshot)
                                   /\ Unwrap(tasks'[i].snapshot) \in
                                         {r.val : r \in {x \in FetcherReplies(k) : x.ok}}
                                \/ /\ tasks'[i].pc = "done"
                                   /\ tasks'[i].result = {Err("AccountFetcherError")}
                       /\ tasks[i].pc \in RefreshPositions \ {"do_clone", "fetching"}
                          => AccountFetches(tasks'[i]) = once
      ]_vars

\* C27 witness: without refresh a run has cloned its key from a snapshot taken
\* at the first slot after one fetch without minimum slot, and the key is not
\* monitored.
C27_Witness ==
    /\ ~cfg.permissions.allow_cloning_refresh
    /\ \E i \in DOMAIN tasks :
          /\ tasks[i].stage = Running
          /\ tasks[i].pc = "done"
          /\ Unwrap(tasks[i].result).ok
          /\ Unwrap(tasks[i].result).val.tag = "Cloned"
          /\ Unwrap(tasks[i].snapshot).at_slot = 1
          /\ tasks[i].calls.fetch = <<FetchOf("account", tasks[i].pubkey, None)>>
          /\ tasks[i].calls.monitor = 0
          /\ tasks[i].pubkey \notin monitored

\* The cache entry of key k is replaced by another one in this step.
Overwritten(k) ==
    /\ k \in DOMAIN last_clone_output
    /\ k \in DOMAIN last_clone_output'
    /\ last_clone_output'[k] # last_clone_output[k]

\* C28 (as claimed): when allow_cloning_refresh is false the cache is
\* write-once: an entry that has been written is never replaced, whatever
\* requests and update notifications follow.
C28_WriteOnce ==
    [][~cfg.permissions.allow_cloning_refresh
       => \A k \in Keys : ~Overwritten(k)]_vars

\* C28 (amended): when allow_cloning_refresh is false, an entry that has been
\* written is replaced only by a request that comes after the update notifier
\* reported a slot for the key above the slot of the entry.
C28_WriteOnceUnlessUpdated ==
    [][~cfg.permissions.allow_cloning_refresh
       => \A k \in Keys :
             Overwritten(k)
             => /\ k \in DOMAIN last_known_update_slot
                /\ last_known_update_slot[k] > CachedSlot(last_clone_output[k])
      ]_vars

\* C28 witness: without refresh, the entry of a key was written, the notifier
\* then reported a later slot for the key, and a second request has dumped the
\* account again: the cache holds the second signature.
C28_Witness ==
    /\ ~cfg.permissions.allow_cloning_refresh
    /\ \E k \in DOMAIN last_clone_output :
          /\ last_clone_output[k].tag = "Cloned"
          /\ last_clone_output[k].signature = 2
          /\ k \in DOMAIN last_known_update_slot
          /\ k \notin monitored

\* Run i replaces the Cloned entry of its key by an outcome derived from the
\* snapshot it fetched.
ReplacesCloned(i) ==
    /\ Steps(i)
    /\ Overwritten(tasks[i].pubkey)
    /\ last_clone_output[tasks[i].pubkey].tag = "Cloned"
    /\ IsSome(tasks'[i].snapshot)

\* C29 (as claimed): refreshes of a key being serialized, the at_slot of the
\* snapshots written to its cache entry never decreases: no refresh replaces a
\* Cloned entry at slot s by an outcome derived from a snapshot older than s.
C29_WrittenSlotsNeverDecrease ==
    [][\A i \in TaskIds :
          ReplacesCloned(i)
          => Unwrap(tasks'[i].snapshot).at_slot
               >= last_clone_output[tasks[i].pubkey].account_chain_snapshot.at_slot
      ]_vars

\* C29 (amended): a refresh replaces a Cloned entry at slot s only when the
\* notifier's last known update slot of the key is above s, and, refreshing
\* being allowed, the snapshot it writes is not older than the key's first
\* subscribed slot; it may be older than s.
C29_ReplacedWhenStaleBySubscribedSnapshot ==
    [][\A i \in TaskIds :
          LET k == tasks[i].pubkey
          IN  ReplacesCloned(i)
              => /\ k \in DOMAIN last_known_update_slot
                 /\ last_known_update_slot[k]
                      > last_clone_output[k].account_chain_snapshot.at_slot
                 /\ cfg.permissions.allow_cloning_refresh
                    => /\ k \in DOMAIN first_subscribed_slot
                       /\ Unwrap(tasks'[i].snapshot).at_slot
                            >= first_subscribed_slot[k]
      ]_vars

\* C29 witness: a caller still holds the clone of the key made from a snapshot
\* at a later slot than the one the cache now holds for it.
C29_Witness ==
    \E c \in Clients, k \in DOMAIN last_clone_output :
        /\ client[c].inbox # <<>>
        /\ client[c].pubkey = k
        /\ client[c].inbox[1].ok
        /\ client[c].inbox[1].val.tag = "Cloned"
        /\ last_clone_output[k].tag = "Cloned"
        /\ last_clone_output[k].account_chain_snapshot.at_slot
             < client[c].inbox[1].val.account_chain_snapshot.at_slot

\* C30: with allow_cloning_refresh true, every refresh of a key that is not
\* blacklisted calls ensure_account_monitoring before its first fetch; when that
\* call fails the refresh returns the notifier's error, makes no fetch and no
\* dump, and leaves the cache entry of the key as it was.
C30_MonitoringComesFirst ==
    [][cfg.permissions.allow_cloning_refresh
       => \A i \in TaskIds :
             LET k == tasks[i].pubkey
             IN  Steps(i)
                 => /\ (tasks[i].pc = "do_clone" /\ k \notin cfg.blacklisted_accounts)
                       => /\ tasks'[i].calls =
                               [tasks[i].calls EXCEPT !.monitor = 1]
                          /\ tasks[i].calls = NoCalls
                          /\ \/ tasks'[i].pc = "fetch" /\ k \in monitored'
                             \/ /\ tasks'[i].pc = "done"
                                /\ tasks'[i].result = {Err("AccountUpdatesError")}
                                /\ last_clone_output' = last_clone_output
                    /\ tasks'[i].calls.fetch # tasks[i].calls.fetch
                       => /\ tasks[i].calls.monitor = 1
                          /\ k \in monitored
                    /\ tasks'[i].calls.dump # tasks[i].calls.dump
                       => tasks[i].calls.monitor = 1
      ]_vars

\* C30 witness: a refresh has ended with the error of ensure_account_monitoring
\* after that one call, without a fetch, and the cache has nothing for the key.
C30_Witness ==
    \E i \in DOMAIN tasks :
        /\ tasks[i].pc = "done"
        /\ tasks[i].result = {Err("AccountUpdatesError")}
        /\ tasks[i].calls = [NoCalls EXCEPT !.monitor = 1]
        /\ tasks[i].pubkey \notin DOMAIN last_clone_output
        /\ tasks[i].pubkey \notin monitored

\* Task i classifies an executable Undelegated snapshot of a program that may
\* be cloned: no allowed set excludes it and program cloning is on.
DispatchesProgram(i) ==
    /\ Classifies(i)
    /\ Unwrap(tasks[i].snapshot).chain_state.kind = "Undelegated"
    /\ Unwrap(tasks[i].snapshot).chain_state.executable
    /\ cfg.allowed_program_ids # None
          => tasks[i].pubkey \in Unwrap(cfg.allowed_program_ids)
    /\ cfg.permissions.allow_cloning_program_accounts

\* The owner of the account in the snapshot that task i holds.
SnapshotOwner(i) == Unwrap(tasks[i].snapshot).chain_state.owner

\* The derived addresses of a program that a run has fetched so far.
DerivedFetches(t) == SelectSeq(t.calls.fetch, LAMBDA f : f.target # "account")

\* C31: for an allowed executable Undelegated account, a deprecated-loader
\* owner ends the refresh with ProgramDataDoesNotExist without a dumper call
\* or a further fetch; a legacy-loader owner leads to the one call of
\* dump_program_account_with_old_bpf without a fetch of a derived address; any
\* other owner starts the upgradable path with the fetch of the program data
\* account, and only that path calls dump_program_accounts.
C31_LoaderDispatch ==
    [][\A i \in TaskIds :
          /\ DispatchesProgram(i)
             => CASE SnapshotOwner(i) = LoaderDeprecated ->
                       /\ tasks'[i].pc = "done"
                       /\ tasks'[i].result = {Err("ProgramDataDoesNotExist")}
                       /\ tasks'[i].calls = tasks[i].calls
                       /\ last_clone_output' = last_clone_output
                  [] SnapshotOwner(i) = LoaderLegacy ->
                       /\ Dumped(i, DumpOf("dump_program_account_with_old_bpf",
                                           tasks[i].pubkey, None, None, None))
                       /\ DerivedFetches(tasks'[i]) = <<>>
                  [] OTHER ->
                       /\ tasks'[i].pc = "program_data"
                       /\ tasks'[i].calls.dump = tasks[i].calls.dump
                       /\ Len(tasks'[i].calls.fetch)
                            = Len(tasks[i].calls.fetch) + 1
                       /\ DerivedFetches(tasks'[i])[1].target = "program_data"
                       /\ Len(DerivedFetches(tasks'[i])) = 1
          /\ ( /\ Steps(i)
               /\ tasks'[i].calls.dump # tasks[i].calls.dump
               /\ IsSome(tasks[i].snapshot)
               /\ Unwrap(tasks[i].snapshot).chain_state.kind = "Undelegated"
               /\ Unwrap(tasks[i].snapshot).chain_state.executable )
             => LET fn == tasks'[i].calls.dump[Len(tasks'[i].calls.dump)].fn
                IN  IF SnapshotOwner(i) = LoaderLegacy
                      THEN fn = "dump_program_account_with_old_bpf"
                      ELSE /\ fn = "dump_program_accounts"
                           /\ SnapshotOwner(i) # LoaderDeprecated
                           /\ DerivedFetches(tasks[i]) # <<>>
      ]_vars

\* C31 witness: the refresh of a program owned by the deprecated loader has
\* ended with ProgramDataDoesNotExist after the fetches of the key alone and
\* without a dumper call.
C31_Witness ==
    \E i \in DOMAIN tasks :
        /\ tasks[i].pc = "done"
        /\ tasks[i].result = {Err("ProgramDataDoesNotExist")}
        /\ IsSome(tasks[i].snapshot)
        /\ SnapshotOwner(i) = LoaderDeprecated
        /\ tasks[i].calls.dump = <<>>
        /\ DerivedFetches(tasks[i]) = <<>>

\* The targets of the derived addresses a run has fetched, in order.
DerivedTargets(t) ==
    [n \in DOMAIN DerivedFetches(t) |-> DerivedFetches(t)[n].target]

\* What the lookups of `target` by a run came to.
Outcomes(t, target) ==
    {l.outcome : l \in {m \in Range(t.calls.derived) : m.target = target}}

\* The dumper calls of a run for the accounts of an upgradable program.
ProgramDumps(t) ==
    SelectSeq(t.calls.dump, LAMBDA d : d.fn = "dump_program_accounts")

\* The IDL that fetch_program_idl yields after the lookups of a run.
FoundIdl(t) ==
    IF "account" \in Outcomes(t, "anchor_idl") THEN Some("anchor_idl")
    ELSE IF "account" \in Outcomes(t, "shank_idl") THEN Some("shank_idl")
    ELSE None

\* C32: on the upgradable path the program data account is fetched first;
\* when its snapshot carries no account the refresh fails with
\* ProgramDataDoesNotExist before any IDL fetch or dumper call; otherwise the
\* anchor IDL is looked up before the shank IDL, the shank IDL only when the
\* anchor lookup yielded no account; dump_program_accounts is then called
\* exactly once, with the IDL found (the anchor one first) or none.
C32_UpgradableOrder ==
    \A i \in DOMAIN tasks :
        LET t == tasks[i]
        IN  /\ DerivedTargets(t) \in
                 {<<>>, <<"program_data">>, <<"program_data", "anchor_idl">>,
                  <<"program_data", "shank_idl">>,
                  <<"program_data", "anchor_idl", "shank_idl">>}
            /\ Len(DerivedTargets(t)) >= 2
                  => Outcomes(t, "program_data") = {"account"}
            /\ "absent" \in Outcomes(t, "program_data")
                  => /\ t.pc \in {"done", "finished", "logged"}
                     /\ t.result = {Err("ProgramDataDoesNotExist")}
                     /\ DerivedTargets(t) = <<"program_data">>
                     /\ t.calls.dump = <<>>
            /\ ( \/ "shank_idl" \in Range(DerivedTargets(t))
                 \/ Outcomes(t, "shank_idl") # {} )
                  => /\ Outcomes(t, "anchor_idl") \in {{"absent"}, {"no_address"}}
                     /\ "anchor_idl" \in Range(DerivedTargets(t))
                           <=> Outcomes(t, "anchor_idl") = {"absent"}
            /\ ProgramDumps(t) # <<>>
                  => /\ Len(t.calls.dump) = 1
                     /\ t.pc \in {"done", "finished", "logged"}
                     /\ Outcomes(t, "program_data") = {"account"}
                     /\ t.calls.dump[1].idl = FoundIdl(t)
                     /\ FoundIdl(t) = None
                           => /\ Outcomes(t, "anchor_idl") # {}
                              /\ Outcomes(t, "shank_idl") # {}
            /\ ( /\ t.pc \in {"done", "finished", "logged"}
                 /\ Outcomes(t, "program_data") = {"account"}
                 /\ "error" \notin Outcomes(t, "anchor_idl")
                                     \cup Outcomes(t, "shank_idl") )
                  => Len(ProgramDumps(t)) = 1

\* C32 witness: a refresh has found the program data account, no anchor IDL
\* account and then a shank IDL account, and has called dump_program_accounts
\* once with the shank IDL.
C32_Witness ==
    \E i \in DOMAIN tasks :
        /\ tasks[i].pc = "done"
        /\ DerivedTargets(tasks[i]) = <<"program_data", "anchor_idl", "shank_idl">>
        /\ Outcomes(tasks[i], "anchor_idl") = {"absent"}
        /\ Outcomes(tasks[i], "shank_idl") = {"account"}
        /\ Len(tasks[i].calls.dump) = 1
        /\ tasks[i].calls.dump[1].fn = "dump_program_accounts"
        /\ tasks[i].calls.dump[1].idl = Some("shank_idl")

\* The min_context_slot of the last fetch of the key itself by a run.
OuterMinContextSlot(t) ==
    AccountFetches(t)[Len(AccountFetches(t))].min_context_slot

\* C33 (as claimed): the program data account and the IDL accounts are fetched
\* with the min_context_slot of the fetch of the program account: the first
\* subscribed slot of the key with refresh, None without.
C33_DerivedFetchesReuseOuterSlot ==
    \A i \in DOMAIN tasks :
        \A f \in Range(DerivedFetches(tasks[i])) :
            /\ f.min_context_slot = OuterMinContextSlot(tasks[i])
            /\ ~cfg.permissions.allow_cloning_refresh => f.min_context_slot = None

\* C33 (amended): the program data account and the IDL accounts are fetched
\* with min_context_slot = Some(at_slot of the snapshot of the program account
\* that the run classified), with and without refresh; that slot is not below
\* the min_context_slot of the outer fetch when that fetch was given one.
C33_DerivedFetchesUseSnapshotSlot ==
    \A i \in DOMAIN tasks :
        \A f \in Range(DerivedFetches(tasks[i])) :
            /\ IsSome(tasks[i].snapshot)
            /\ f.min_context_slot = Some(Unwrap(tasks[i].snapshot).at_slot)
            /\ \A outer \in OuterMinContextSlot(tasks[i]) :
                  Unwrap(f.min_context_slot) >= outer

\* C33 witness: a run has fetched the program data account and an IDL account
\* at the slot of its snapshot of the program, a later slot than the one its
\* fetch of the program account asked for.
C33_Witness ==
    \E i \in DOMAIN tasks :
        /\ Len(DerivedFetches(tasks[i])) >= 2
        /\ IsSome(OuterMinContextSlot(tasks[i]))
        /\ \A f \in Range(DerivedFetches(tasks[i])) :
              /\ f.min_context_slot = Some(Unwrap(tasks[i].snapshot).at_slot)
              /\ Unwrap(f.min_context_slot)
                   > Unwrap(OuterMinContextSlot(tasks[i]))

\* The reuse rule does not apply to a Delegated snapshot of key k with
\* delegation slot d: the cache has nothing for k, or an Unclonable output, or
\* a clone of a snapshot that is not Delegated, or one of another delegation
\* slot.
NoReuse(k, d) ==
    \/ k \notin DOMAIN last_clone_output
    \/ last_clone_output[k].tag = "Unclonable"
    \/ /\ last_clone_output[k].tag = "Cloned"
       /\ last_clone_output[k].account_chain_snapshot.chain_state.kind
            # "Delegated"
    \/ /\ last_clone_output[k].tag = "Cloned"
       /\ last_clone_output[k].account_chain_snapshot.chain_state.kind
            = "Delegated"
       /\ last_clone_output[k].account_chain_snapshot.chain_state
            .delegation_record.delegation_slot # d

\* C34: when a run classifies a Delegated snapshot with delegated cloning
\* allowed and the stage predicate true, and the reuse rule does not apply,
\* it calls dump_delegated_account exactly once for the key with the owner of
\* the delegation record; on success a signature that no live output carries
\* and the new snapshot replace the cache entry of the key, and on failure the
\* entry stays.
C34_DelegatedIsDumpedUnlessReused ==
    [][\A i \in TaskIds :
          LET k == tasks[i].pubkey
              snapshot == Unwrap(tasks[i].snapshot)
              record == snapshot.chain_state.delegation_record
          IN  ( /\ Classifies(i)
                /\ snapshot.chain_state.kind = "Delegated"
                /\ cfg.permissions.allow_cloning_delegated_accounts
                /\ StagePredicate(tasks[i].stage, record)
                /\ NoReuse(k, record.delegation_slot) )
              => /\ Dumped(i, DumpOf("dump_delegated_account", k, None,
                                     Some(record.owner), None))
                 /\ Len(tasks'[i].calls.dump) = 1
                 /\ \A result \in tasks'[i].result :
                       result.ok
                       => /\ result.val.signature \notin UsedSignatures
                          /\ last_clone_output'[k]
                               = Cloned(snapshot, result.val.signature)
      ]_vars

\* C34 witness: a caller holds the clone of the key made under one delegation
\* slot, and a later refresh has dumped the key again for a snapshot of another
\* delegation slot: the cache holds the new snapshot under a new signature.
C34_Witness ==
    \E i \in DOMAIN tasks, c \in Clients :
        LET k == tasks[i].pubkey
        IN  /\ tasks[i].pc = "done"
            /\ Len(tasks[i].calls.dump) = 1
            /\ tasks[i].calls.dump[1].fn = "dump_delegated_account"
            /\ tasks[i].calls.dump[1].owner = Some("owner_program")
            /\ client[c].inbox # <<>>
            /\ client[c].inbox[1].ok
            /\ client[c].inbox[1].val.tag = "Cloned"
            /\ client[c].inbox[1].val.account_chain_snapshot.pubkey = k
            /\ client[c].inbox[1].val.account_chain_snapshot.chain_state.kind
                 = "Delegated"
            /\ k \in DOMAIN last_clone_output
            /\ last_clone_output[k].tag = "Cloned"
            /\ last_clone_output[k].account_chain_snapshot
                 = Unwrap(tasks[i].snapshot)
            /\ last_clone_output[k].account_chain_snapshot.chain_state.kind
                 = "Delegated"
            /\ last_clone_output[k].account_chain_snapshot.chain_state
                 .delegation_record.delegation_slot
                 # client[c].inbox[1].val.account_chain_snapshot.chain_state
                     .delegation_record.delegation_slot
            /\ last_clone_output[k].signature # client[c].inbox[1].val.signature

\* The output is the one do_clone returns for a Delegated snapshot that the
\* stage predicate keeps from being cloned during hydration.
SyntheticCloned(t, output) ==
    /\ output.tag = "Cloned"
    /\ t.stage # Running
    /\ output.account_chain_snapshot.chain_state.kind = "Delegated"
    /\ ~StagePredicate(t.stage,
          output.account_chain_snapshot.chain_state.delegation_record)

\* C35: a run of do_clone calls the dumper at most once, and not at all when
\* it returns an Unclonable output, of any reason, or the synthetic Cloned
\* output of hydration; a dumper call is the last thing a run does, so every
\* refusal is decided before it.
C35_AtMostOneDump ==
    /\ [](\A i \in DOMAIN tasks :
             /\ Len(tasks[i].calls.dump) <= 1
             /\ \A result \in tasks[i].result :
                   ( /\ result.ok
                     /\ \/ result.val.tag = "Unclonable"
                        \/ SyntheticCloned(tasks[i], result.val) )
                   => tasks[i].calls.dump = <<>>)
    /\ [][\A i \in TaskIds :
             (Steps(i) /\ tasks'[i].calls.dump # tasks[i].calls.dump)
             => /\ tasks[i].calls.dump = <<>>
                /\ tasks[i].result = None
                /\ tasks'[i].pc = "done"
                /\ \A result \in tasks'[i].result :
                      result.ok => result.val.tag = "Cloned"
         ]_vars

\* C35 witness: a run has fetched a snapshot and ended with an Unclonable
\* output at the slot of that snapshot, without a dumper call, while the key
\* is not in the bank.
C35_Witness ==
    \E i \in DOMAIN tasks :
        /\ tasks[i].pc = "done"
        /\ tasks[i].calls.fetch # <<>>
        /\ tasks[i].calls.dump = <<>>
        /\ IsSome(tasks[i].snapshot)
        /\ tasks[i].pubkey \notin bank
        /\ \E result \in tasks[i].result :
              /\ result.ok
              /\ result.val.tag = "Unclonable"
              /\ result.val.at_slot = Unwrap(tasks[i].snapshot).at_slot

\* A refreshing run of task i has called the fetcher while the first
\* subscribed slot of its key is still unknown; an entry of that map is never
\* removed, so the slot has been unknown during the whole run.
StaysUnsubscribed(i) ==
    /\ cfg.permissions.allow_cloning_refresh
    /\ tasks[i].calls.fetch # <<>>
    /\ tasks[i].pubkey \notin DOMAIN first_subscribed_slot

\* C36: with refresh allowed, while the first subscribed slot of the key stays
\* unknown no reply of the fetcher is accepted (every snapshot has at_slot <
\* u64::MAX): the run calls the fetcher exactly 5 times and ends with
\* FailedToFetchSatisfactorySlot or with the error of the last fetch, never
\* with an output, and the cache entry of the key stays as it was.
C36_UnknownSubscriptionExhaustsRetries ==
    /\ [](\A i \in DOMAIN tasks :
             StaysUnsubscribed(i)
             => /\ tasks[i].snapshot = None
                /\ tasks[i].pc \in {"fetch", "fetching", "done", "finished",
                                    "logged"}
                /\ tasks[i].pc \notin {"fetch", "fetching"}
                   => /\ Len(AccountFetches(tasks[i])) = 5
                      /\ tasks[i].calls.fetch = AccountFetches(tasks[i])
                      /\ tasks[i].calls.dump = <<>>
                      /\ tasks[i].result \in
                           {{Err("FailedToFetchSatisfactorySlot")},
                            {Err("AccountFetcherError")}})
    /\ [][/\ DOMAIN first_subscribed_slot \subseteq DOMAIN first_subscribed_slot'
          /\ \A i \in TaskIds :
                ( /\ Steps(i)
                  /\ StaysUnsubscribed(i)
                  /\ tasks[i].pubkey \notin DOMAIN first_subscribed_slot'
                  /\ tasks[i].pc = "fetching" )
                => /\ tasks'[i].pc \in {"fetch", "done"}
                   /\ tasks'[i].pc = "done" <=> tasks[i].fetch_count = 5
                   /\ last_clone_output' = last_clone_output
         ]_vars

\* C36 witness: every one of the 5 fetches of a refresh was made without a
\* min_context_slot, the refresh has ended with FailedToFetchSatisfactorySlot,
\* and the first subscribed slot of the key is still unknown.
C36_Witness ==
    \E i \in DOMAIN tasks :
        /\ cfg.permissions.allow_cloning_refresh
        /\ tasks[i].pc = "done"
        /\ tasks[i].result = {Err("FailedToFetchSatisfactorySlot")}
        /\ Len(tasks[i].calls.fetch) = 5
        /\ \A f \in Range(tasks[i].calls.fetch) : f.min_context_slot = None
        /\ tasks[i].pubkey \in monitored
        /\ tasks[i].pubkey \notin DOMAIN first_subscribed_slot

\* The futures of the batch in flight that have not completed.
Unfinished == {i \in DOMAIN tasks : tasks[i].pc # "finished"}

\* A future of process_clone_request is created in this step.
StartsTask ==
    \E i \in DOMAIN tasks' :
        /\ tasks'[i].stage = Running
        /\ tasks'[i].pc = "start"
        /\ i \in DOMAIN tasks => tasks[i].pc # "start"

\* C37: while a future of the current batch has not completed, the request
\* loop is inside join_all: it takes no key from the channel, creates no
\* future and does not return on cancellation.  So the futures that run at one
\* time belong to one batch, and a key pushed while a batch is in flight waits
\* in the channel until the last future of that batch has completed.
C37_BatchBarrier ==
    /\ [](\A i \in Unfinished : tasks[i].stage = Running => loop = "join_all")
    /\ [][/\ (Len(channel') < Len(channel) \/ StartsTask)
             => /\ loop = "select"
                /\ Unfinished = {}
                /\ \A i \in DOMAIN tasks' :
                      /\ tasks'[i].pc = "start"
                      /\ tasks'[i].pubkey \in Range(channel)
          /\ (loop = "join_all" /\ loop' # "join_all")
             => /\ Unfinished = {}
                /\ loop' = "select"
          /\ (loop' = "returned" /\ loop # "returned")
             => loop = "select" /\ Unfinished = {}
         ]_vars

\* C37 witness: while a future of the batch in flight is still inside do_clone
\* another key has been pushed, and the loop is awaiting join_all.
C37_Witness ==
    /\ loop = "join_all"
    /\ channel # <<>>
    /\ \E i \in Unfinished :
          /\ tasks[i].pc \in RefreshPositions
          /\ tasks[i].pubkey \notin Range(channel)

\* Hydration has stored the synthetic Cloned output for key k: a clone of a
\* Delegated snapshot of delegation slot d that the stage predicate kept from
\* being dumped.
StoredSynthetic(k, d) ==
    \E i \in DOMAIN tasks :
        /\ tasks[i].stage # Running
        /\ tasks[i].pubkey = k
        /\ tasks[i].pc = "done"
        /\ \E result \in tasks[i].result :
              /\ result.ok
              /\ SyntheticCloned(tasks[i], result.val)
              /\ result.val.account_chain_snapshot.chain_state.delegation_record
                   .delegation_slot = d
              /\ Get(last_clone_output, k) = Some(result.val)

\* A request-path refresh of key k has ended after the fetch of a Delegated
\* snapshot of delegation slot d.
RefreshedDelegated(i, k, d) ==
    /\ tasks[i].stage = Running
    /\ tasks[i].pubkey = k
    /\ tasks[i].pc \in {"done", "finished"}
    /\ IsSome(tasks[i].snapshot)
    /\ Unwrap(tasks[i].snapshot).chain_state.kind = "Delegated"
    /\ Unwrap(tasks[i].snapshot).chain_state.delegation_record.delegation_slot = d

\* C38 (as claimed): once hydration has stored the synthetic Cloned output for
\* a key with a Delegated snapshot of delegation slot d, every later
\* request-path refresh of the key that fetches a Delegated snapshot of the
\* same d calls no dumper (and so returns no signature of a new dump).
C38_SyntheticSurvives ==
    \A k \in Keys, d \in ChainSlots :
        []( StoredSynthetic(k, d)
            => [](\A i \in DOMAIN tasks :
                     RefreshedDelegated(i, k, d)
                     => tasks[i].calls.dump = <<>>) )

\* The cache holds for key k a clone of a Delegated snapshot of delegation
\* slot d.
HoldsDelegated(k, d) ==
    /\ k \in DOMAIN last_clone_output
    /\ last_clone_output[k].tag = "Cloned"
    /\ last_clone_output[k].account_chain_snapshot.chain_state.kind = "Delegated"
    /\ last_clone_output[k].account_chain_snapshot.chain_state.delegation_record
         .delegation_slot = d

\* C38 (amended): hydration stores the synthetic Cloned output without a
\* dumper call; while the cache entry of the key is a clone of a Delegated
\* snapshot of delegation slot d, a request-path refresh that fetches a
\* Delegated snapshot of the same d calls no dumper, returns the signature of
\* the entry and stores the new snapshot under it; and nothing but a refresh of
\* the key changes the entry, whatever updates are reported.  So the synthetic
\* signature is returned until a refresh stores a snapshot that is not
\* Delegated at d.
C38_SyntheticSurvivesWhileCached ==
    /\ [](\A i \in DOMAIN tasks :
             ( /\ tasks[i].stage # Running
               /\ tasks[i].pc = "done"
               /\ IsSome(tasks[i].snapshot)
               /\ Unwrap(tasks[i].snapshot).chain_state.kind = "Delegated"
               /\ cfg.permissions.allow_cloning_delegated_accounts
               /\ ~StagePredicate(tasks[i].stage,
                     Unwrap(tasks[i].snapshot).chain_state.delegation_record) )
             => /\ tasks[i].calls.dump = <<>>
                /\ \E result \in tasks[i].result :
                      /\ result.ok
                      /\ result.val.tag = "Cloned"
                      /\ result.val.account_chain_snapshot
                           = Unwrap(tasks[i].snapshot)
                      /\ Get(last_clone_output, tasks[i].pubkey)
                           = Some(result.val))
    /\ [][/\ \A i \in TaskIds :
                LET k == tasks[i].pubkey
                    snapshot == Unwrap(tasks[i].snapshot)
                IN  ( /\ Classifies(i)
                      /\ tasks[i].stage = Running
                      /\ snapshot.chain_state.kind = "Delegated"
                      /\ cfg.permissions.allow_cloning_delegated_accounts
                      /\ HoldsDelegated(k, snapshot.chain_state.delegation_record
                                              .delegation_slot) )
                    => /\ tasks'[i].pc = "done"
                       /\ tasks'[i].calls = tasks[i].calls
                       /\ tasks'[i].result
                            = {Ok(Cloned(snapshot, last_clone_output[k].signature))}
                       /\ last_clone_output'[k]
                            = Cloned(snapshot, last_clone_output[k].signature)
          /\ \A k \in DOMAIN last_clone_output :
                ( \/ k \notin DOMAIN last_clone_output'
                  \/ last_clone_output'[k] # last_clone_output[k] )
                => \E i \in TaskIds :
                      /\ Steps(i)
                      /\ tasks[i].pubkey = k
                      /\ tasks[i].pc \in RefreshPositions
                      /\ tasks'[i].pc = "done"
                      /\ Unwrap(tasks'[i].result).ok
         ]_vars

\* C38 witness: the chain holds the account as delegated to this validator and
\* as nothing else, hydration has run, an update of the account was reported,
\* and a request-path refresh has fetched the account and returned the
\* signature of the cache entry without a dumper call.
C38_Witness ==
    /\ world.hydrates
    /\ \E i \in DOMAIN tasks :
          LET k == tasks[i].pubkey
          IN  /\ world.chain[k] =
                   {Delegated(DelegationRecord(ValidatorId, "owner_program", 1))}
              /\ RefreshedDelegated(i, k, 1)
              /\ tasks[i].calls.fetch # <<>>
              /\ tasks[i].calls.dump = <<>>
              /\ k \in DOMAIN last_known_update_slot
              /\ HoldsDelegated(k, 1)
              /\ tasks[i].result = {Ok(last_clone_output[k])}

\* The fetch of an IDL address by the run has failed.
IdlFetchFailed(t) ==
    "error" \in Outcomes(t, "anchor_idl") \cup Outcomes(t, "shank_idl")

\* C39: on the upgradable path a fetcher error on the anchor IDL address, or
\* on the shank IDL address after an absent anchor IDL, ends the refresh of the
\* program with that error: the shank address is not looked up after an anchor
\* error, the dumper is not called, and the cache entry of the key stays as it
\* was.
C39_IdlFetchErrorFailsRefresh ==
    /\ [](\A i \in DOMAIN tasks :
             /\ IdlFetchFailed(tasks[i])
                => /\ tasks[i].pc \in {"done", "finished", "logged"}
                   /\ tasks[i].result = {Err("AccountFetcherError")}
                   /\ tasks[i].calls.dump = <<>>
             /\ "error" \in Outcomes(tasks[i], "anchor_idl")
                => /\ Outcomes(tasks[i], "shank_idl") = {}
                   /\ "shank_idl" \notin Range(DerivedTargets(tasks[i]))
             /\ "error" \in Outcomes(tasks[i], "shank_idl")
                => Outcomes(tasks[i], "anchor_idl") \in {{"absent"}, {"no_address"}})
    /\ [][\A i \in TaskIds :
             (Steps(i) /\ ~IdlFetchFailed(tasks[i]) /\ IdlFetchFailed(tasks'[i]))
             => /\ tasks[i].pc \in {"anchor_idl", "shank_idl"}
                /\ tasks'[i].pc = "done"
                /\ last_clone_output' = last_clone_output
                /\ bank' = bank
         ]_vars

\* C39 witness: a refresh has found the program data account, the fetch of the
\* anchor IDL address has failed, and the refresh has ended with the fetcher's
\* error after those two derived fetches, without a dumper call and without a
\* cache entry for the key.
C39_Witness ==
    \E i \in DOMAIN tasks :
        /\ tasks[i].pc = "done"
        /\ Outcomes(tasks[i], "program_data") = {"account"}
        /\ Outcomes(tasks[i], "anchor_idl") = {"error"}
        /\ DerivedTargets(tasks[i]) = <<"program_data", "anchor_idl">>
        /\ tasks[i].result = {Err("AccountFetcherError")}
        /\ tasks[i].calls.dump = <<>>
        /\ tasks[i].pubkey \notin DOMAIN last_clone_output

\* A permission to clone some kind of account is set.
SomeCloningAllowed ==
    \/ cfg.permissions.allow_cloning_feepayer_accounts
    \/ cfg.permissions.allow_cloning_undelegated_accounts
    \/ cfg.permissions.allow_cloning_delegated_accounts
    \/ cfg.permissions.allow_cloning_program_accounts

\* Key k is an account the bank held at start and still holds, and the cache
\* has no entry for it.
LocalAndUncached(k) ==
    /\ k \in DOMAIN world.accounts
    /\ k \in bank
    /\ k \notin DOMAIN last_clone_output

\* C40: a local account that hydration left out or failed to clone has no
\* cache entry when hydration is over; from then on, while the bank holds the
\* account, every request for it returns Unclonable(AlreadyLocallyOverriden,
\* u64::MAX) without a fetch and without a dump, and the cache entry stays
\* absent, whatever updates are reported for the key.
C40_UnhydratedLocalIsNeverCloned ==
    /\ [](\A i \in DOMAIN tasks :
             HydrationFailed(i) => tasks[i].pubkey \notin DOMAIN last_clone_output)
    /\ [][/\ \A k \in DOMAIN world.accounts :
                ( /\ SomeCloningAllowed
                  /\ LeftAlone(k)
                  /\ k \in bank
                  /\ k \notin DOMAIN last_clone_output )
                => k \notin DOMAIN last_clone_output'
          /\ \A k \in DOMAIN world.accounts :
                (~InHydration /\ LocalAndUncached(k) /\ k \in bank')
                => /\ k \notin DOMAIN last_clone_output'
                   /\ \A i \in DOMAIN tasks' :
                         tasks'[i].pubkey = k => tasks'[i].calls = NoCalls
          /\ \A i \in TaskIds :
                ( /\ Steps(i)
                  /\ tasks[i].pc = "start"
                  /\ SomeCloningAllowed
                  /\ LocalAndUncached(tasks[i].pubkey) )
                => /\ tasks'[i].pc = "done"
                   /\ tasks'[i].result =
                        {Ok(Unclonable(tasks[i].pubkey, "AlreadyLocallyOverriden",
                                       U64_MAX))}
                   /\ tasks'[i].calls = NoCalls
                   /\ last_clone_output' = last_clone_output
                   /\ bank' = bank
         ]_vars

\* C40 witness: hydration failed to clone a local account and is over, an
\* update of the account has been reported since, and a request for the
\* account has returned Unclonable(AlreadyLocallyOverriden, u64::MAX) without
\* a call to a collaborator; the cache has no entry for the account.
C40_Witness ==
    \E i \in DOMAIN tasks :
        LET k == tasks[i].pubkey
        IN  /\ ~InHydration
            /\ world.hydrates
            /\ ~LeftAlone(k)
            /\ LocalAndUncached(k)
            /\ k \in monitored
            /\ k \in DOMAIN last_known_update_slot
            /\ tasks[i].stage = Running
            /\ tasks[i].pc = "done"
            /\ tasks[i].calls = NoCalls
            /\ tasks[i].result =
                 {Ok(Unclonable(k, "AlreadyLocallyOverriden", U64_MAX))}

====
